---------------------------- MODULE Spec2Model ----------------------------
(***************************************************************************)
(* State-machine model of the RFP response platform backend                *)
(* (src/backend): company registration and authentication, tenant-scoped   *)
(* document and RFP routes, validated file storage, and the Celery         *)
(* document processing jobs working on the relational store.               *)
(*                                                                         *)
(* Modelling conventions                                                   *)
(*  - The relational store is the committed state (companies, docs,        *)
(*    chunks, rfps).  Every request and every job execution works in its   *)
(*    own SQLAlchemy session: it keeps the row as it loaded it (loaded),   *)
(*    the attribute values it assigned (cur) and flushes, at commit, only  *)
(*    the columns whose value differs from the loaded one (the ORM's       *)
(*    net-change rule).  Statements see the latest committed rows (READ    *)
(*    COMMITTED).                                                          *)
(*  - Random tokens (uuid4 primary keys, secrets.token_hex identifiers     *)
(*    and credentials) are fresh values taken from counters.               *)
(*  - A timestamp column is NULL (0) or set (1): no operation reads the     *)
(*    value of a timestamp.                                                *)
(*  - Integer 0 is the null id, the string "NONE" the null text.           *)
(***************************************************************************)
EXTENDS Integers, Sequences, FiniteSets, TLC

VARIABLES
    companies,   \* committed rows of table companies
    regs,        \* in-flight register requests, per request slot
    issued,      \* credentials handed out by 201 responses (observer)
    docs,        \* committed rows of table company_documents, by row id
    chunks,      \* committed rows of table document_chunks
    rfps,        \* committed rows of table rfp_documents, by row id
    questions,   \* committed rows of table extracted_questions
    matches,     \* committed rows of table question_document_matches
    files,       \* files present under the upload root
    queue,       \* messages held by the broker (ready or reserved, unacked)
    workers,     \* Celery worker processes and the job each one executes
    reqs,        \* in-flight document / RFP requests, per request slot
    resp,        \* the last HTTP response sent (observer)
    hits,        \* the rate limiter's storage and the recent request log
    ctr,         \* counters behind fresh ids and the operation budgets
    provided     \* names missing from src that the deployment supplies

vars == <<companies, regs, issued, docs, chunks, rfps, questions, matches,
          files, queue, workers, reqs, resp, hits, ctr, provided>>

authVars == <<companies, regs, issued>>
storeVars == <<docs, chunks, rfps, files, queue, workers, reqs, ctr>>
\* The tables only the RFP pipeline writes.
pipelineVars == <<questions, matches>>

-----------------------------------------------------------------------------
(* Bounds of the model *)

MaxCompanies == 3
MaxRegs == 2
MaxKeyGuess == 3
MaxSalt == 2

Names == {"Acme", "Globex"}

NoId == 0
NoText == "NONE"

\* datetime.utcnow(): a timestamp.
utcnow == 1

RegSlots == 1..MaxRegs
Salts == 1..MaxSalt
KeyGuesses == 0..MaxKeyGuess

-----------------------------------------------------------------------------
(* Security utilities: app/utils/security.py *)

\* bcrypt.hashpw(key, salt): the digest is determined by key and salt and
\* different (key, salt) pairs give different digests.
Bcrypt(key, salt) == key * (MaxSalt + 1) + salt

\* generate_api_key(): a fresh random token.
generate_api_key == ctr.key + 1

\* hash_api_key(api_key) with the salt bcrypt.gensalt() drew.
hash_api_key(api_key, salt) == [salt |-> salt, digest |-> Bcrypt(api_key, salt)]

verify_api_key_SaltIgnored(plain_api_key, hashed_api_key) ==
    Bcrypt(plain_api_key, 0) = hashed_api_key.digest

\* verify_api_key: bcrypt.checkpw re-hashes the candidate with the salt
\* embedded in the stored hash and compares.
verify_api_key(plain_api_key, hashed_api_key) ==
    Bcrypt(plain_api_key, hashed_api_key.salt) = hashed_api_key.digest

\* bcrypt.checkpw raises ValueError ("Invalid salt") when the stored
\* text is not a bcrypt hash; verify_api_key (lines 26-35) has no
\* handler, so the exception leaves it.
verify_api_key_raises(plain_api_key, hashed_api_key) ==
    hashed_api_key.salt \notin Salts

-----------------------------------------------------------------------------
(* Responses *)

NoResp == [seq |-> 0, op |-> "none", code |-> 0, company |-> NoId,
           name |-> NoText, asked |-> NoText, key |-> 0,
           authenticated |-> FALSE,
           caller |-> NoId, path |-> NoId, doc |-> NoId,
           file |-> [size |-> 0, content_type |-> "NONE", filename |-> <<>>],
           status |-> NoText, owners |-> {}, client |-> NoId,
           documents |-> <<>>]

\* A response: the defaults of NoResp overridden by the given fields, with
\* the sequence bit flipped so that every response is a visible step.
Response(fields) ==
    [f \in DOMAIN NoResp |->
        IF f = "seq" THEN 1 - resp.seq
        ELSE IF f \in DOMAIN fields THEN fields[f] ELSE NoResp[f]]

-----------------------------------------------------------------------------
(* Rate limiting: app/utils/rate_limiting.py and the @limiter.limit
   decorators of routes/auth.py and routes/rfp.py *)

MaxClients == 2
\* The number of clock ticks that make up the minute of "5/minute".
WindowTicks == 2

\* @limiter.limit("5/minute")
RateLimit == 5

\* Client addresses (key_func get_remote_address) whose requests are
\* counted.  OtherClient stands for the addresses that send too few
\* requests to meet a limit: their counters are not kept.
Clients == 1..MaxClients
OtherClient == NoId

LimitedRoutes == {"register_company", "upload_rfp"}

\* storage: per route and client the open window, its age in ticks and
\* its counter.  log (observer): per route and client the number of
\* requests received 0, 1, ... WindowTicks - 1 ticks ago.
NoHits == [storage |-> <<>>, log |-> <<>>]

NoLog == [a \in 1..WindowTicks |-> 0]

Cap(n) == IF n > RateLimit + 1 THEN RateLimit + 1 ELSE n

\* The limit test of the decorator: the counter of the open window,
\* this request included, does not exceed the limit.
limiter_allows(route, client) ==
    \/ client = OtherClient
    \/ <<route, client>> \notin DOMAIN hits.storage
    \/ hits.storage[<<route, client>>].count < RateLimit

\* The requests of a client on a route received within the last minute.
RecentRequests(route, client) ==
    IF <<route, client>> \in DOMAIN hits.log
    THEN LET l == hits.log[<<route, client>>]
             RECURSIVE Sum(_)
             Sum(a) == IF a = 0 THEN 0 ELSE l[a] + Sum(a - 1)
         IN  Sum(WindowTicks)
    ELSE 0

\* The counter is incremented by every request, allowed or not; a window
\* opens with the first request after the previous one expired.
limiter_hit(route, client) ==
    LET k == <<route, client>>
        l == IF k \in DOMAIN hits.log THEN hits.log[k] ELSE NoLog
    IN  IF client = OtherClient
        THEN hits
        ELSE [storage |->
                [x \in DOMAIN hits.storage \cup {k} |->
                    IF x # k THEN hits.storage[x]
                    ELSE IF k \in DOMAIN hits.storage
                    THEN [hits.storage[k] EXCEPT !.count = Cap(@ + 1)]
                    ELSE [count |-> 1, age |-> 0]],
              log |->
                [x \in DOMAIN hits.log \cup {k} |->
                    IF x # k THEN hits.log[x]
                    ELSE [l EXCEPT ![1] = Cap(@ + 1)]]]

\* Time passes by one tick: a window that has lasted WindowTicks ticks
\* expires with its counter (fixed-window strategy, the default of
\* Limiter), and the log of received requests moves on by one tick.
Tick ==
    /\ hits' =
          [storage |->
              [k \in {x \in DOMAIN hits.storage :
                          hits.storage[x].age + 1 < WindowTicks} |->
                  [hits.storage[k] EXCEPT !.age = @ + 1]],
           log |->
              [k \in {x \in DOMAIN hits.log :
                          \E a \in 1..(WindowTicks - 1) :
                              hits.log[x][a] # 0} |->
                  [a \in 1..WindowTicks |->
                      IF a = 1 THEN 0 ELSE hits.log[k][a - 1]]]]
    /\ hits' # hits
    /\ UNCHANGED <<companies, regs, issued, docs, chunks, rfps, questions,
                   matches, files, queue, workers, reqs, resp, ctr,
                   provided>>

-----------------------------------------------------------------------------
(* Authentication service: app/services/auth_service.py *)

get_company_by_name_Any(n) == companies

\* AuthService._get_company_by_name: select(Company).where(name == n)
get_company_by_name(n) == {c \in companies : c.name = n}

\* The unique constraints of table companies (name, api_key), checked by
\* the database when the INSERT is flushed.
CompanyInsertOk_NoUnique(row) == TRUE

CompanyInsertOk(row) ==
    /\ \A c \in companies : c.name # row.name
    /\ \A c \in companies : c.api_key # row.api_key

IdleReg == [pc |-> "idle", name |-> NoText, client |-> NoId]

\* The rate limit of the route (routes/auth.py line 38) and
\* register_company, first half: the existence check (lines 45-52).
RegisterCheck(client, s, n) ==
    /\ regs[s].pc = "idle"
    /\ ctr.company < MaxCompanies
    /\ hits' = limiter_hit("register_company", client)
    /\ IF ~limiter_allows("register_company", client)
       THEN /\ resp' = Response([op |-> "register", code |-> 429,
                                 asked |-> n, client |-> client])
            /\ UNCHANGED regs
       ELSE IF get_company_by_name(n) # {}
       THEN /\ resp' = Response([op |-> "register", code |-> 409,
                                 asked |-> n, client |-> client])
            /\ UNCHANGED regs
       ELSE /\ regs' = [regs EXCEPT ![s] = [pc |-> "checked", name |-> n,
                                            client |-> client]]
            /\ UNCHANGED resp
    /\ UNCHANGED <<companies, issued>>
    /\ UNCHANGED <<provided, storeVars, pipelineVars>>

\* register_company, second half: key generation, add, commit, and the
\* IntegrityError handler (lines 54-86).
RegisterCommit(s) ==
    /\ regs[s].pc = "checked"
    /\ \E salt \in Salts :
        LET api_key == generate_api_key
            new_company == [id |-> ctr.company + 1,
                            name |-> regs[s].name,
                            api_key |-> hash_api_key(api_key, salt),
                            is_active |-> TRUE]
        IN  IF CompanyInsertOk(new_company)
            THEN /\ companies' = companies \cup {new_company}
                 /\ issued' = issued \cup
                        {[companyId |-> new_company.id,
                          companyName |-> new_company.name,
                          apiKey |-> api_key]}
                 /\ resp' = Response([op |-> "register", code |-> 201,
                                      company |-> new_company.id,
                                      name |-> new_company.name,
                                      asked |-> regs[s].name,
                                      key |-> api_key,
                                      client |-> regs[s].client])
                 /\ ctr' = [ctr EXCEPT !.company = @ + 1, !.key = @ + 1]
            ELSE /\ resp' = Response([op |-> "register", code |-> 409,
                                      asked |-> regs[s].name,
                                      client |-> regs[s].client])
                 /\ ctr' = [ctr EXCEPT !.key = @ + 1]
                 /\ UNCHANGED <<companies, issued>>
    /\ regs' = [regs EXCEPT ![s] = IdleReg]
    /\ UNCHANGED <<docs, chunks, rfps, files, queue, workers, reqs>>
    /\ UNCHANGED <<provided, pipelineVars, hits>>

\* authenticate_company (lines 114-161) as a function of the committed
\* state: the response it produces for a name and a candidate credential.
\* An exception of the verification is answered 500 (lines 155-161).
authenticate_company(n, k) ==
    LET found == get_company_by_name(n)
    IN  IF found = {}
        THEN [op |-> "authenticate", code |-> 401]
        ELSE LET company == CHOOSE c \in found : TRUE
             IN  IF ~company.is_active
                 THEN [op |-> "authenticate", code |-> 401]
                 ELSE IF verify_api_key_raises(k, company.api_key)
                 THEN [op |-> "authenticate", code |-> 500]
                 ELSE IF ~verify_api_key(k, company.api_key)
                 THEN [op |-> "authenticate", code |-> 401]
                 ELSE [op |-> "authenticate", code |-> 200,
                       company |-> company.id, name |-> company.name,
                       authenticated |-> TRUE]

\* POST /companies/authenticate: reads only.
Authenticate(n, k) ==
    /\ resp' = Response(authenticate_company(n, k) @@
                            [asked |-> n, key |-> k])
    /\ UNCHANGED <<provided, authVars, pipelineVars, hits>>
    /\ UNCHANGED <<provided, storeVars, pipelineVars, hits>>

-----------------------------------------------------------------------------
(* Identity resolution: app/utils/dependencies.py *)

\* The text of an Authorization header before its last word.
Schemes == {"Bearer", "Basic", "Bearer Bearer"}

\* The outcome of get_current_company that is answered 401.
Unauthenticated == [id |-> NoId]

\* get_current_company (lines 36-91): the outcomes the credential of an
\* Authorization header can have, a company or Unauthenticated.  The
\* header is the pair of the text before its last word and that word.
\* A header that does not start with "Bearer " is refused (lines 62-64);
\* replace("Bearer ", "") removes every occurrence (line 67), so a
\* repeated scheme leaves the key.  The active rows are then tried in
\* the order the SELECT without ORDER BY returned them (lines 74-82):
\* the first row that matches is returned, and a row on which
\* verify_api_key raises ends the loop in the handler of lines 89-91.
get_current_company(scheme, token) ==
    IF scheme \notin {"Bearer", "Bearer Bearer"} \/ token = 0
    THEN {Unauthenticated}
    ELSE LET rows == {c \in companies : c.is_active}
             raising == {c \in rows :
                            verify_api_key_raises(token, c.api_key)}
             matching == {c \in rows \ raising :
                            verify_api_key(token, c.api_key)}
         IN  matching \cup
                (IF matching = {} \/ raising # {}
                 THEN {Unauthenticated} ELSE {})

verify_company_access_Open(current_company, company_id) == TRUE

\* verify_company_access (lines 98-124): TRUE when the resolved company is
\* the company of the path, otherwise the request ends 403.
verify_company_access(current_company, company_id) ==
    current_company.id = company_id

\* GET /companies/profile (routes/auth.py lines 140-155)
Profile(scheme, token) ==
    /\ LET who == get_current_company(scheme, token)
       IN  \E c \in who :
              IF c = Unauthenticated
              THEN resp' = Response([op |-> "profile", code |-> 401,
                                     key |-> token])
              ELSE resp' = Response([op |-> "profile", code |-> 200,
                                     company |-> c.id, name |-> c.name,
                                     key |-> token, caller |-> c.id])
    /\ UNCHANGED <<provided, authVars, pipelineVars, hits>>
    /\ UNCHANGED <<provided, storeVars, pipelineVars, hits>>

\* Company.is_active is flipped by no route; an operator changes it in the
\* database directly (models/company.py lines 28-33).
SetActive(id, flag) ==
    /\ \E c \in companies :
        /\ c.id = id
        /\ c.is_active # flag
        /\ companies' = (companies \ {c}) \cup {[c EXCEPT !.is_active = flag]}
    /\ UNCHANGED <<regs, issued, resp>>
    /\ UNCHANGED <<provided, storeVars, pipelineVars, hits>>

-----------------------------------------------------------------------------
(* File storage: app/utils/file_storage.py *)

ALLOWED_MIME_TYPES ==
    {"application/pdf",
     "application/vnd.openxmlformats-officedocument.wordprocessingml.document",
     "application/msword"}

ALLOWED_EXTENSIONS ==
    {<<".", "p", "d", "f">>, <<".", "d", "o", "c", "x">>, <<".", "d", "o", "c">>}

MAX_FILE_SIZE == 10 * 1024 * 1024

\* str.lower() on one character: an upper-case letter becomes its
\* lower-case letter, every other character stays.
UpperLetters ==
    <<"A", "B", "C", "D", "E", "F", "G", "H", "I", "J", "K", "L", "M",
      "N", "O", "P", "Q", "R", "S", "T", "U", "V", "W", "X", "Y", "Z">>

LowerLetters ==
    <<"a", "b", "c", "d", "e", "f", "g", "h", "i", "j", "k", "l", "m",
      "n", "o", "p", "q", "r", "s", "t", "u", "v", "w", "x", "y", "z">>

LowerChar(c) ==
    IF \E i \in DOMAIN UpperLetters : UpperLetters[i] = c
    THEN LowerLetters[CHOOSE i \in DOMAIN UpperLetters : UpperLetters[i] = c]
    ELSE c

Lower(str) == [i \in 1..Len(str) |-> LowerChar(str[i])]

\* Position of the last occurrence of character c in str, 0 if none
\* (str.rfind, shifted by one).
RECURSIVE RFind(_, _, _)
RFind(str, c, i) ==
    IF i = 0 THEN 0
    ELSE IF str[i] = c THEN i
    ELSE RFind(str, c, i - 1)

\* PurePath.name: the last path component, ignoring empty and "."
\* components.
RECURSIVE PathName(_)
PathName(str) ==
    LET slash == RFind(str, "/", Len(str))
        last == SubSeq(str, slash + 1, Len(str))
    IN  IF slash = 0
        THEN (IF str = <<".">> THEN <<>> ELSE str)
        ELSE IF last = <<>> \/ last = <<".">>
        THEN PathName(SubSeq(str, 1, slash - 1))
        ELSE last

\* PurePath.suffix: the text from the last dot of the name on, unless the
\* dot is the first or the last character of the name.
PathSuffix(str) ==
    LET name == PathName(str)
        dot == RFind(name, ".", Len(name))
    IN  IF 1 < dot /\ dot < Len(name)
        THEN SubSeq(name, dot, Len(name))
        ELSE <<>>

\* FileStorage._validate_file_size (lines 79-96): TRUE when no error.
validate_file_size(file_size) == file_size <= MAX_FILE_SIZE

\* FileStorage._validate_file_type (lines 47-77): TRUE when no error.  The
\* extension is looked at only when the file has a name.
validate_file_type(file) ==
    /\ file.content_type \in ALLOWED_MIME_TYPES
    /\ (file.filename # <<>>) =>
            Lower(PathSuffix(file.filename)) \in ALLOWED_EXTENSIONS

\* FileStorage.save_file (lines 119-185): the validations, in order.
save_file_ok(file) ==
    /\ validate_file_size(file.size)
    /\ validate_file_type(file)

\* The path save_file writes to: <root>/<company_id>/<doc_id><extension>.
save_file_path(file, company_id, doc_id) ==
    [company |-> company_id, name |-> doc_id,
     ext |-> IF file.filename # <<>>
             THEN Lower(PathSuffix(file.filename)) ELSE <<>>]

-----------------------------------------------------------------------------
(* Rows, sessions and requests *)

MaxDocs == 1
MaxRfps == 1
MaxReqs == 2

ReqSlots == 1..MaxReqs

NoPath == [company |-> NoId, name |-> <<>>, ext |-> <<>>]

NoFile == [size |-> 0, content_type |-> NoText, filename |-> <<>>]

\* A row of company_documents / rfp_documents (models/company_document.py,
\* models/rfp_document.py): the columns the operations read or write.
NoRow == [company |-> NoId, file_path |-> NoPath, status |-> NoText,
          started |-> 0, completed |-> 0, chunk_count |-> 0,
          error |-> NoText, created_at |-> 0]

NoRfp == [company |-> NoId, file_path |-> NoPath, status |-> NoText,
          started |-> 0, completed |-> 0, questions_count |-> 0,
          error |-> NoText]

\* The columns an UPDATE can carry.
MutableCols == {"status", "started", "completed", "chunk_count",
                "questions_count", "error"}

IdleReq == [pc |-> "idle", op |-> "none", caller |-> NoId, company |-> NoId,
            doc |-> NoId, file |-> NoFile, loaded |-> NoRow, cur |-> NoRow,
            targets |-> {}]

\* The i-th smallest positive integer outside the set used: fresh row ids
\* and tokens are named canonically.
RECURSIVE NthFree(_, _, _)
NthFree(used, i, from) ==
    IF from \in used THEN NthFree(used, i, from + 1)
    ELSE IF i = 1 THEN from
    ELSE NthFree(used, i - 1, from + 1)

Fresh(used, i) == NthFree(used, i, 1)

Put(f, k, v) == [x \in DOMAIN f \cup {k} |-> IF x = k THEN v ELSE f[x]]

Remove(f, k) == [x \in DOMAIN f \ {k} |-> f[x]]

\* Session.flush of a loaded row: the UPDATE carries the columns whose
\* current value differs from the loaded one; the other columns keep what
\* is committed.
FlushRow(row, loaded, cur) ==
    [c \in DOMAIN row |->
        IF c \in MutableCols /\ cur[c] # loaded[c] THEN cur[c] ELSE row[c]]

flush_publishes_AsCommit(id, row) == Put(docs, id, row)

\* What other sessions see of a row after Session.flush() and before
\* commit (document_service.py line 98): nothing, the INSERT is part of
\* the open transaction.
flush_publishes(id, row) == docs

\* The message Task.delay() publishes.  Its task id is fresh; it is named
\* by the smallest number that tells it from the queued messages with the
\* same arguments.
Message(task, target, company, retries) ==
    LET same == {m \in queue : /\ m.task = task
                               /\ m.target = target
                               /\ m.company = company
                               /\ m.retries = retries}
    IN  [id |-> Fresh({m.id : m \in same}, 1), task |-> task,
         target |-> target, company |-> company, retries |-> retries,
         countdown |-> 0, worker |-> 0]

\* A request is answered without any effect on the store.
Reply(fields) ==
    /\ resp' = Response(fields)
    /\ UNCHANGED <<docs, chunks, rfps, files, queue, workers, reqs, ctr>>

-----------------------------------------------------------------------------
(* Document upload: routes/documents.py upload_document and
   services/document_service.py DocumentService.upload_document *)

\* Route checks, save_file, add and flush (route lines 55-70, service
\* lines 62-98).
UploadDocumentBegin(r, token, path, file) ==
    /\ reqs[r].pc = "idle"
    /\ ctr.doc < MaxDocs
    /\ UNCHANGED <<provided, authVars, pipelineVars, hits>>
    /\ LET who == get_current_company("Bearer", token)
           ids == [op |-> "upload_document", path |-> path, file |-> file]
       IN  \E current_company \in who :
           IF current_company = Unauthenticated
           THEN Reply(ids @@ [code |-> 401])
           ELSE
             LET me == ids @@ [caller |-> current_company.id]
                 id == ctr.doc + 1
                 file_path == save_file_path(file, path, <<"doc", id>>)
                 document == [NoRow EXCEPT !.company = path,
                                !.file_path = file_path,
                                !.status = "PENDING",
                                !.created_at = id]
             IN  IF current_company.id # path
                 THEN Reply(me @@ [code |-> 403])
                 ELSE IF file.filename = <<>>
                 THEN Reply(me @@ [code |-> 400])
                 ELSE IF ~save_file_ok(file)
                 THEN Reply(me @@ [code |-> 400])
                 ELSE /\ files' = files \cup {document.file_path}
                      /\ docs' = flush_publishes(id, document)
                      /\ reqs' = [reqs EXCEPT ![r] =
                            [IdleReq EXCEPT !.pc = "flushed",
                                !.op = "upload_document",
                                !.caller = current_company.id,
                                !.company = path, !.doc = id,
                                !.file = file, !.cur = document]]
                      /\ ctr' = [ctr EXCEPT !.doc = @ + 1]
                      /\ UNCHANGED <<chunks, rfps, queue, workers, resp>>

\* The module-level names of utils/database.py (lines 7-38).
DatabaseNames ==
    {"async_engine", "AsyncSessionLocal", "create_tables", "get_session"}

\* The module-level names of utils/config.py (lines 7-58).
ConfigNames == {"Settings", "settings"}

\* The methods of class FileStorage (utils/file_storage.py lines 28-230).
FileStorageMethods ==
    {"__init__", "_get_company_dir", "_validate_file_type",
     "_validate_file_size", "_generate_secure_filename", "save_file",
     "delete_file", "get_file_info"}

\* The modules of app/services.
ServiceModules == {"auth_service", "document_service", "rfp_service"}

\* What the code imports or calls and src does not define: the module
\* app.services.rag_document_processor (rfp_service.py line 20,
\* document_tasks.py line 18), get_async_session_factory of
\* utils/database.py (document_tasks.py line 19), get_database_url of
\* utils/config.py (rfp_tasks.py line 44) and FileStorage.extract_text
\* (rfp_service.py line 282).
MissingNames ==
    {"rag_document_processor", "get_async_session_factory",
     "get_database_url", "extract_text"}

\* The deployments: src as it stands, and src with the missing names
\* supplied one after another in the order in which a run needs them
\* (the import of the services, the start of a worker, the session of
\* the RFP job, the text extraction of the RFP pipeline), up to
\* everything the specification describes.
Deployments ==
    {{},
     {"rag_document_processor"},
     {"rag_document_processor", "get_async_session_factory"},
     {"rag_document_processor", "get_async_session_factory",
      "get_database_url"},
     MissingNames}

\* The names a deployment defines.
Defined ==
    DatabaseNames \cup ConfigNames \cup FileStorageMethods
        \cup ServiceModules \cup provided

\* `import app.tasks.document_tasks` (document_tasks.py lines 14-19).
document_tasks_importable ==
    {"rag_document_processor", "get_async_session_factory"} \subseteq Defined

\* `import app.services.rfp_service` (rfp_service.py line 20), which
\* routes/rfp.py and tasks/rfp_tasks.py import.
rfp_service_importable == "rag_document_processor" \in Defined

\* A worker imports the modules of `include` when it starts
\* (celery_app.py lines 19-22): app.tasks.document_tasks, and
\* app.tasks.rfp_tasks, which imports rfp_service (rfp_tasks.py line
\* 25).  A worker that cannot import them does not start, and no
\* message of either task is taken from the queue.
worker_starts == document_tasks_importable /\ rfp_service_importable

\* rfp_tasks.py lines 42-48: the RFP job creates its engine and session
\* from get_database_url(); the document job takes its session from the
\* factory its module has imported.
session_opens(task) ==
    IF task = "process_rfp_document"
    THEN "get_database_url" \in Defined
    ELSE "get_async_session_factory" \in Defined

\* The import of the task (service line 114), then status PROCESSING,
\* start timestamp, commit (lines 116-119).  When the task module cannot
\* be imported, as with src as it stands, the handler of lines 135-143
\* answers 500, get_db_session rolls the flushed row back and the stored
\* file stays.
UploadDocumentCommit(r) ==
    /\ reqs[r].pc = "flushed"
    /\ reqs[r].op = "upload_document"
    /\ IF document_tasks_importable
       THEN LET document == [reqs[r].cur EXCEPT !.status = "PROCESSING",
                                                !.started = utcnow]
            IN  /\ docs' = Put(docs, reqs[r].doc, document)
                /\ reqs' = [reqs EXCEPT ![r].pc = "committed",
                                        ![r].cur = document]
                /\ UNCHANGED resp
       ELSE /\ resp' = Response([op |-> "upload_document", code |-> 500,
                                 caller |-> reqs[r].caller,
                                 path |-> reqs[r].company,
                                 doc |-> reqs[r].doc])
            /\ reqs' = [reqs EXCEPT ![r] = IdleReq]
            /\ UNCHANGED docs
    /\ UNCHANGED <<provided, authVars, pipelineVars, hits>>
    /\ UNCHANGED <<chunks, rfps, files, queue, workers, ctr>>

\* process_document.delay and the 202 response (service lines 121-131).
UploadDocumentEnqueue(r) ==
    /\ reqs[r].pc = "committed"
    /\ reqs[r].op = "upload_document"
    /\ queue' = queue \cup
          {Message("process_document", reqs[r].doc, reqs[r].company, 0)}
    /\ UNCHANGED ctr
    /\ resp' = Response([op |-> "upload_document", code |-> 202,
                         caller |-> reqs[r].caller, path |-> reqs[r].company,
                         doc |-> reqs[r].doc, file |-> reqs[r].file,
                         status |-> "PROCESSING"])
    /\ reqs' = [reqs EXCEPT ![r] = IdleReq]
    /\ UNCHANGED <<provided, authVars, pipelineVars, hits>>
    /\ UNCHANGED <<docs, chunks, rfps, files, workers>>

\* process_document.delay raises (the broker cannot be reached): the
\* handler of service lines 135-143 turns it into a 500, get_db_session
\* (dependencies.py lines 24-27) rolls back a transaction that holds
\* nothing, the commit of line 119 having ended the previous one.
UploadDocumentEnqueueRaises(r) ==
    /\ reqs[r].pc = "committed"
    /\ reqs[r].op = "upload_document"
    /\ resp' = Response([op |-> "upload_document", code |-> 500,
                         caller |-> reqs[r].caller, path |-> reqs[r].company,
                         doc |-> reqs[r].doc, file |-> reqs[r].file])
    /\ reqs' = [reqs EXCEPT ![r] = IdleReq]
    /\ UNCHANGED <<provided, authVars, pipelineVars, hits>>
    /\ UNCHANGED <<docs, chunks, rfps, files, queue, workers, ctr>>

-----------------------------------------------------------------------------
(* RFP upload: routes/rfp.py upload_rfp and services/rfp_service.py
   RfpService.upload_rfp *)

\* verify_company_access (dependencies.py lines 98-124), the rate limit
\* of the route (routes/rfp.py line 19), company lookup and save_file
\* (service lines 49-66).  The dependencies are resolved
\* before the decorated endpoint is called: a request that ends 401 or
\* 403 is not counted.
UploadRfpBegin(r, client, token, path, file) ==
    /\ reqs[r].pc = "idle"
    /\ rfp_service_importable
    /\ ctr.rfp < MaxRfps
    /\ UNCHANGED <<provided, authVars, pipelineVars>>
    /\ LET who == get_current_company("Bearer", token)
           ids == [op |-> "upload_rfp", path |-> path, file |-> file,
                   client |-> client]
       IN  \E current_company \in who :
           IF current_company = Unauthenticated
           THEN Reply(ids @@ [code |-> 401]) /\ UNCHANGED hits
           ELSE
             LET me == ids @@ [caller |-> current_company.id]
                 id == ctr.rfp + 1
                 file_path == save_file_path(file, path, <<"rfp", id>>)
                 rfp_document == [NoRfp EXCEPT !.company = path,
                                !.file_path = file_path,
                                !.status = "PENDING"]
             IN  IF ~verify_company_access(current_company, path)
                 THEN Reply(me @@ [code |-> 403]) /\ UNCHANGED hits
                 ELSE
                 /\ hits' = limiter_hit("upload_rfp", client)
                 /\ IF ~limiter_allows("upload_rfp", client)
                    THEN Reply(me @@ [code |-> 429])
                    ELSE IF \A c \in companies : c.id # path
                    THEN Reply(me @@ [code |-> 404])
                    ELSE IF ~save_file_ok(file)
                    THEN Reply(me @@ [code |-> 400])
                    ELSE /\ files' = files \cup {rfp_document.file_path}
                         /\ reqs' = [reqs EXCEPT ![r] =
                               [IdleReq EXCEPT !.pc = "saved",
                                   !.op = "upload_rfp",
                                   !.caller = current_company.id,
                                   !.company = path, !.doc = id,
                                   !.file = file, !.cur = rfp_document]]
                         /\ ctr' = [ctr EXCEPT !.rfp = @ + 1]
                         /\ UNCHANGED <<docs, chunks, rfps, queue, workers,
                                        resp>>

\* RfpService.upload_rfp, second half (service lines 71-90): the
\* RfpDocument row is added and committed PENDING.  The file was
\* written by the awaited save_file before; other requests and jobs
\* run in between.
UploadRfpCommit(r) ==
    /\ reqs[r].pc = "saved"
    /\ reqs[r].op = "upload_rfp"
    /\ rfps' = Put(rfps, reqs[r].doc, reqs[r].cur)
    /\ reqs' = [reqs EXCEPT ![r].pc = "committed"]
    /\ UNCHANGED <<provided, authVars, pipelineVars, hits>>
    /\ UNCHANGED <<docs, chunks, files, queue, workers, resp, ctr>>

\* The commit of line 83 raises: the exception leaves the route as a
\* 500 and get_db_session rolls back; the file save_file wrote stays
\* without a row.
UploadRfpCommitRaises(r) ==
    /\ reqs[r].pc = "saved"
    /\ reqs[r].op = "upload_rfp"
    /\ resp' = Response([op |-> "upload_rfp", code |-> 500,
                         caller |-> reqs[r].caller, path |-> reqs[r].company,
                         doc |-> reqs[r].doc, file |-> reqs[r].file])
    /\ reqs' = [reqs EXCEPT ![r] = IdleReq]
    /\ UNCHANGED <<provided, authVars, pipelineVars, hits>>
    /\ UNCHANGED <<docs, chunks, rfps, files, queue, workers, ctr>>

\* process_rfp_document.delay and the response (route lines 42-52).
UploadRfpEnqueue(r) ==
    /\ reqs[r].pc = "committed"
    /\ reqs[r].op = "upload_rfp"
    /\ queue' = queue \cup
          {Message("process_rfp_document", reqs[r].doc, reqs[r].company, 0)}
    /\ UNCHANGED ctr
    /\ resp' = Response([op |-> "upload_rfp", code |-> 200,
                         caller |-> reqs[r].caller, path |-> reqs[r].company,
                         doc |-> reqs[r].doc, file |-> reqs[r].file,
                         status |-> reqs[r].cur.status])
    /\ reqs' = [reqs EXCEPT ![r] = IdleReq]
    /\ UNCHANGED <<provided, authVars, pipelineVars, hits>>
    /\ UNCHANGED <<docs, chunks, rfps, files, workers>>

\* process_rfp_document.delay raises (route line 43): the request ends
\* with a 500 after the service has committed the row (service line 82).
UploadRfpEnqueueRaises(r) ==
    /\ reqs[r].pc = "committed"
    /\ reqs[r].op = "upload_rfp"
    /\ resp' = Response([op |-> "upload_rfp", code |-> 500,
                         caller |-> reqs[r].caller, path |-> reqs[r].company,
                         doc |-> reqs[r].doc, file |-> reqs[r].file])
    /\ reqs' = [reqs EXCEPT ![r] = IdleReq]
    /\ UNCHANGED <<provided, authVars, pipelineVars, hits>>
    /\ UNCHANGED <<docs, chunks, rfps, files, queue, workers, ctr>>

-----------------------------------------------------------------------------
(* Document list, status, delete and manual reprocess:
   routes/documents.py and services/document_service.py *)

MaxReprocess == 1

\* select(CompanyDocument).where(company_id == c, doc_id == d)
find_document(company_id, doc_id) ==
    {d \in DOMAIN docs : d = doc_id /\ docs[d].company = company_id}

ChunksOf(d) == {c \in chunks : c.document = d}

\* The question_document_matches rows of a document (relationship
\* question_matches, models/company_document.py lines 106-110).
MatchesOf(d) == {m \in matches : m.document = d}

\* Chunk rows deleted by a DELETE that another open transaction has not
\* committed yet: a second DELETE or a cascade waits for that row lock.
LockedBy(others) == UNION {reqs[o].targets : o \in others}

order_by_created_at_desc_Asc(documents) ==
    {l \in [1..Cardinality(documents) -> documents] :
        /\ \A i, j \in DOMAIN l : l[i] = l[j] => i = j
        /\ \A i, j \in DOMAIN l :
              i < j => docs[l[i]].created_at <= docs[l[j]].created_at}

\* query.order_by(CompanyDocument.created_at.desc()) (service line 169):
\* the orders the database may return the rows in.
order_by_created_at_desc(documents) ==
    {l \in [1..Cardinality(documents) -> documents] :
        /\ \A i, j \in DOMAIN l : l[i] = l[j] => i = j
        /\ \A i, j \in DOMAIN l :
              i < j => docs[l[i]].created_at >= docs[l[j]].created_at}

\* list_documents (service lines 160-197); status_filter "NONE" is none.
ListDocuments(token, path, status_filter) ==
    /\ UNCHANGED <<provided, authVars, pipelineVars, hits>>
    /\ LET who == get_current_company("Bearer", token)
           ids == [op |-> "list_documents", path |-> path]
       IN  \E current_company \in who :
           IF current_company = Unauthenticated
           THEN Reply(ids @@ [code |-> 401])
           ELSE
             LET me == ids @@ [caller |-> current_company.id]
                 documents == {d \in DOMAIN docs :
                                 /\ docs[d].company = path
                                 /\ status_filter # NoText =>
                                        docs[d].status = status_filter}
             IN  IF current_company.id # path
                 THEN Reply(me @@ [code |-> 403])
                 ELSE \E document_items \in
                              order_by_created_at_desc(documents) :
                        Reply(me @@ [code |-> 200,
                          status |-> status_filter,
                          documents |-> document_items,
                          owners |-> {docs[d].company : d \in documents}])

\* get_document_status (service lines 226-265)
GetDocumentStatus(token, path, doc_id) ==
    /\ UNCHANGED <<provided, authVars, pipelineVars, hits>>
    /\ LET who == get_current_company("Bearer", token)
           ids == [op |-> "get_document_status", path |-> path]
       IN  \E current_company \in who :
           IF current_company = Unauthenticated
           THEN Reply(ids @@ [code |-> 401])
           ELSE
             LET me == ids @@ [caller |-> current_company.id]
                 found == find_document(path, doc_id)
             IN  IF current_company.id # path
                 THEN Reply(me @@ [code |-> 403])
                 ELSE IF found = {}
                 THEN Reply(me @@ [code |-> 404, doc |-> doc_id])
                 ELSE Reply(me @@ [code |-> 200, doc |-> doc_id,
                        status |-> docs[doc_id].status,
                        owners |-> {docs[doc_id].company}])

\* get_rfp_status (routes/rfp.py lines 55-80, rfp_service.py lines 107-176)
GetRfpStatus(token, path, rfp_id) ==
    /\ rfp_service_importable
    /\ UNCHANGED <<provided, authVars, pipelineVars, hits>>
    /\ LET who == get_current_company("Bearer", token)
           ids == [op |-> "get_rfp_status", path |-> path]
       IN  \E current_company \in who :
           IF current_company = Unauthenticated
           THEN Reply(ids @@ [code |-> 401])
           ELSE
             LET me == ids @@ [caller |-> current_company.id]
                 found == {x \in DOMAIN rfps :
                             x = rfp_id /\ rfps[x].company = path}
                 questions_data == {q \in questions : q.rfp = rfp_id}
                 question_matches ==
                     {m \in matches :
                         \E q \in questions_data : m.question = q.id}
                 matched_documents ==
                     {m.document : m \in question_matches} \cap DOMAIN docs
             IN  IF ~verify_company_access(current_company, path)
                 THEN Reply(me @@ [code |-> 403])
                 ELSE IF found = {}
                 THEN Reply(me @@ [code |-> 404, doc |-> rfp_id])
                 ELSE Reply(me @@ [code |-> 200, doc |-> rfp_id,
                        status |-> rfps[rfp_id].status,
                        owners |-> {rfps[rfp_id].company} \cup
                            {docs[d].company : d \in matched_documents}])

delete_file_raises_Propagates(unlink_fails) == unlink_fails

\* FileStorage.delete_file (file_storage.py lines 187-206): an exception
\* of the removal is logged and swallowed.
delete_file_raises(unlink_fails) == FALSE

\* The files left by delete_file: a missing file is only logged, a
\* failed removal leaves the file.
delete_file(file_path, unlink_fails) ==
    IF unlink_fails THEN files ELSE files \ {file_path}

\* delete_document up to session.delete (service lines 295-329): the
\* backing file is removed at once, the row when the request commits.
DeleteDocumentBeginWith(r, token, path, doc_id, unlink_fails) ==
    /\ reqs[r].pc = "idle"
    /\ UNCHANGED <<provided, authVars, pipelineVars, hits>>
    /\ LET who == get_current_company("Bearer", token)
           ids == [op |-> "delete_document", path |-> path]
       IN  \E current_company \in who :
           IF current_company = Unauthenticated
           THEN Reply(ids @@ [code |-> 401])
           ELSE
             LET me == ids @@ [caller |-> current_company.id]
             IN  IF current_company.id # path
                 THEN Reply(me @@ [code |-> 403])
                 ELSE IF find_document(path, doc_id) = {}
                 THEN Reply(me @@ [code |-> 404, doc |-> doc_id])
                 ELSE IF delete_file_raises(unlink_fails)
                 THEN Reply(me @@ [code |-> 500, doc |-> doc_id])
                 ELSE /\ files' = delete_file(docs[doc_id].file_path,
                                              unlink_fails)
                      /\ reqs' = [reqs EXCEPT ![r] =
                            [IdleReq EXCEPT !.pc = "deleting",
                                !.op = "delete_document",
                                !.caller = current_company.id,
                                !.company = path, !.doc = doc_id,
                                !.loaded = docs[doc_id],
                                !.cur = docs[doc_id]]]
                      /\ UNCHANGED <<docs, chunks, rfps, queue, workers,
                                     resp, ctr>>

\* A delete whose file removal works.
DeleteDocumentBegin(r, token, path, doc_id) ==
    DeleteDocumentBeginWith(r, token, path, doc_id, FALSE)

\* The commit of get_db_session (dependencies.py lines 18-29) flushes the
\* DELETE; the foreign key of document_chunks cascades.  A DELETE by
\* primary key that matches no row, the document having been deleted by
\* another request in between, only makes the mapper warn (no
\* version_id_col): the commit succeeds and the answer is 204 as well.
DeleteDocumentCommit(r) ==
    /\ reqs[r].pc = "deleting"
    /\ ChunksOf(reqs[r].doc) \cap LockedBy(ReqSlots \ {r}) = {}
    /\ LET me == [op |-> "delete_document", caller |-> reqs[r].caller,
                  path |-> reqs[r].company, doc |-> reqs[r].doc]
       IN  IF reqs[r].doc \in DOMAIN docs
           THEN /\ docs' = Remove(docs, reqs[r].doc)
                /\ chunks' = chunks \ ChunksOf(reqs[r].doc)
                /\ matches' = matches \ MatchesOf(reqs[r].doc)
                /\ resp' = Response(me @@ [code |-> 204])
           ELSE /\ resp' = Response(me @@ [code |-> 204])
                /\ UNCHANGED <<docs, chunks, matches>>
    /\ reqs' = [reqs EXCEPT ![r] = IdleReq]
    /\ UNCHANGED <<provided, authVars, questions, hits>>
    /\ UNCHANGED <<rfps, files, queue, workers, ctr>>

process_document_guard_Pending(processing_status) ==
    processing_status = "PENDING"

\* The guard of manual reprocess (service lines 386-387).
process_document_guard(processing_status) ==
    processing_status = "PROCESSING"

\* DocumentService.process_document up to the status check (service lines
\* 366-394): an already PROCESSING document is answered with its status.
ReprocessReadWithin(r, token, path, doc_id, budget) ==
    /\ reqs[r].pc = "idle"
    /\ UNCHANGED <<provided, authVars, pipelineVars, hits>>
    /\ LET who == get_current_company("Bearer", token)
           ids == [op |-> "process_document", path |-> path]
       IN  \E current_company \in who :
           IF current_company = Unauthenticated
           THEN Reply(ids @@ [code |-> 401])
           ELSE
             LET me == ids @@ [caller |-> current_company.id]
             IN  IF current_company.id # path
                 THEN Reply(me @@ [code |-> 403])
                 ELSE IF find_document(path, doc_id) = {}
                 THEN Reply(me @@ [code |-> 404, doc |-> doc_id])
                 ELSE IF process_document_guard(docs[doc_id].status)
                 THEN Reply(me @@ [code |-> 202, doc |-> doc_id,
                            status |-> docs[doc_id].status,
                            owners |-> {docs[doc_id].company}])
                 ELSE /\ ctr.reprocess < budget
                      /\ reqs' = [reqs EXCEPT ![r] =
                            [IdleReq EXCEPT !.pc = "read",
                                !.op = "process_document",
                                !.caller = current_company.id,
                                !.company = path, !.doc = doc_id,
                                !.loaded = docs[doc_id],
                                !.cur = docs[doc_id]]]
                      /\ ctr' = [ctr EXCEPT !.reprocess = @ + 1]
                      /\ UNCHANGED <<docs, chunks, rfps, files, queue,
                                     workers, resp>>

ReprocessRead(r, token, path, doc_id) ==
    ReprocessReadWithin(r, token, path, doc_id, MaxReprocess)

\* The purge inside the open transaction, the import of the task (line
\* 417) and process_document.delay (service lines 396-428): the DELETE
\* takes the chunk rows committed at that moment; chunk count and error
\* text are reset on the loaded object.  When the task module cannot be
\* imported, as with src as it stands, line 417 raises after the DELETE:
\* the handler of lines 444-452 answers 500, get_db_session rolls the
\* purge back and nothing is published.
ReprocessPurgeEnqueue(r) ==
    /\ reqs[r].pc = "read"
    /\ LET purge == reqs[r].loaded.status \in {"COMPLETED", "FAILED"}
           rows == IF purge THEN ChunksOf(reqs[r].doc) ELSE {}
       IN  /\ rows \cap LockedBy(ReqSlots \ {r}) = {}
           /\ IF document_tasks_importable
              THEN /\ reqs' = [reqs EXCEPT ![r].pc = "enqueued",
                                  ![r].targets = rows,
                                  ![r].cur = IF purge
                                             THEN [@ EXCEPT
                                                     !.chunk_count = 0,
                                                     !.error = NoText]
                                             ELSE @]
                   /\ queue' = queue \cup
                         {Message("process_document", reqs[r].doc,
                                  reqs[r].company, 0)}
                   /\ UNCHANGED resp
              ELSE /\ resp' = Response([op |-> "process_document",
                                        code |-> 500,
                                        caller |-> reqs[r].caller,
                                        path |-> reqs[r].company,
                                        doc |-> reqs[r].doc])
                   /\ reqs' = [reqs EXCEPT ![r] = IdleReq]
                   /\ UNCHANGED queue
    /\ UNCHANGED <<provided, authVars, pipelineVars, hits>>
    /\ UNCHANGED <<docs, chunks, rfps, files, workers, ctr>>

\* process_document.delay raises (service lines 425-428): the handler
\* of lines 444-452 answers 500 and get_db_session rolls the purge
\* back; nothing is published.
ReprocessEnqueueRaises(r) ==
    /\ reqs[r].pc = "read"
    /\ document_tasks_importable
    /\ resp' = Response([op |-> "process_document", code |-> 500,
                         caller |-> reqs[r].caller, path |-> reqs[r].company,
                         doc |-> reqs[r].doc])
    /\ reqs' = [reqs EXCEPT ![r] = IdleReq]
    /\ UNCHANGED <<provided, authVars, pipelineVars, hits>>
    /\ UNCHANGED <<docs, chunks, rfps, files, queue, workers, ctr>>

\* Status PROCESSING, start timestamp and commit (service lines
\* 430-433).  The UPDATE of a row that is gone raises and the request
\* ends 500 with its transaction rolled back.
ReprocessCommit(r) ==
    /\ reqs[r].pc = "enqueued"
    /\ LET document == [reqs[r].cur EXCEPT !.status = "PROCESSING",
                                           !.started = utcnow]
           me == [op |-> "process_document", caller |-> reqs[r].caller,
                  path |-> reqs[r].company, doc |-> reqs[r].doc]
       IN  IF reqs[r].doc \in DOMAIN docs
           THEN /\ docs' = [docs EXCEPT ![reqs[r].doc] =
                              FlushRow(@, reqs[r].loaded, document)]
                /\ chunks' = chunks \ reqs[r].targets
                /\ reqs' = [reqs EXCEPT ![r].pc = "recommitted",
                               ![r].targets = {},
                               ![r].loaded = document,
                               ![r].cur = document]
                /\ UNCHANGED resp
           ELSE /\ resp' = Response(me @@ [code |-> 500])
                /\ reqs' = [reqs EXCEPT ![r] = IdleReq]
                /\ UNCHANGED <<docs, chunks>>
    /\ UNCHANGED <<provided, authVars, pipelineVars, hits>>
    /\ UNCHANGED <<rfps, files, queue, workers, ctr>>

\* The refreshed status (service line 440, get_document_status lines
\* 226-265): a second SELECT after the commit.  A row that was deleted
\* in between is answered 404; a row that is there is reported from the
\* object of the session, whose attributes the commit did not expire
\* (expire_on_commit=False, utils/database.py line 17).
ReprocessReply(r) ==
    /\ reqs[r].pc = "recommitted"
    /\ LET me == [op |-> "process_document", caller |-> reqs[r].caller,
                  path |-> reqs[r].company, doc |-> reqs[r].doc]
       IN  IF find_document(reqs[r].company, reqs[r].doc) = {}
           THEN resp' = Response(me @@ [code |-> 404])
           ELSE resp' = Response(me @@ [code |-> 202,
                           status |-> reqs[r].cur.status,
                           owners |-> {reqs[r].cur.company}])
    /\ reqs' = [reqs EXCEPT ![r] = IdleReq]
    /\ UNCHANGED <<provided, authVars, pipelineVars, hits>>
    /\ UNCHANGED <<docs, chunks, rfps, files, queue, workers, ctr>>

-----------------------------------------------------------------------------
(* Celery workers: app/celery_app.py, app/tasks/document_tasks.py *)

MaxWorkers == 1
MaxChunks == 1
MaxRaise == 1
MaxLost == 1

\* @celery_app.task(name="process_document", bind=True, max_retries=3)
max_retries == 3

\* raise self.retry(exc=e, countdown=60)
retry_countdown == 60


\* Task.retry (document_tasks.py line 59): the task is published again
\* while its retry count is below max_retries, else the exception is
\* raised and the task ends in failure.
should_retry(retries) == retries < max_retries

Workers == 1..MaxWorkers

IdleWorker == [pc |-> "idle", msg |-> NoId, task |-> NoText,
               target |-> NoId, company |-> NoId, retries |-> 0,
               loaded |-> NoRow, cur |-> NoRow, chunk_ids |-> <<>>,
               error |-> NoText, n |-> 0, i |-> 0, q |-> NoId,
               found |-> {}, isolation_key |-> NoId]

Reserved(w) == {m \in queue : m.worker = w}

\* extract_text_from_file (document_tasks.py lines 212-248): text can be
\* produced only from an existing file with a supported extension; the
\* extraction may still fail or give no text.
TextExtensions ==
    ALLOWED_EXTENSIONS \cup
        {<<".", "t", "x", "t">>, <<".", "m", "d">>, <<".", "c", "s", "v">>}

extract_text_from_file_can_succeed(file_path) ==
    /\ file_path \in files
    /\ file_path.ext \in TextExtensions

document_not_found_Raises(job) ==
    [job EXCEPT !.pc = "except", !.error = "not found"]

\* Lines 89-93: without a document the job logs and returns
\* {"status": "error", "message": "Document not found"}.
document_not_found(job) ==
    [job EXCEPT !.pc = "return", !.error = "not found"]

\* A worker that could import the task module takes a ready message
\* (late acknowledgment: the broker keeps it), opens the session of the
\* job (lines 77-78) and process_document queries the document scoped to
\* the company (document_tasks.py lines 81-93).  With src as it stands
\* the module cannot be imported (lines 18-19): no worker registers the
\* task, and no request can publish a message for it either.
JobLoad(w) ==
    /\ workers[w].pc = "idle"
    /\ worker_starts
    /\ \E m \in queue :
        /\ m.worker = 0
        /\ m.task = "process_document"
        /\ queue' = (queue \ {m}) \cup {[m EXCEPT !.worker = w]}
        /\ LET found == {d \in DOMAIN docs :
                           d = m.target /\ docs[d].company = m.company}
               job == [IdleWorker EXCEPT !.msg = m.id, !.task = m.task,
                          !.target = m.target, !.company = m.company,
                          !.retries = m.retries]
           IN  workers' = [workers EXCEPT ![w] =
                  IF found = {}
                  THEN document_not_found(job)
                  ELSE [job EXCEPT !.pc = "loaded",
                                   !.loaded = docs[m.target],
                                   !.cur = docs[m.target]]]
    /\ UNCHANGED <<provided, authVars, pipelineVars, hits>>
    /\ UNCHANGED <<docs, chunks, rfps, files, reqs, resp, ctr>>

\* The assignments of step 2 (document_tasks.py lines 95-97).
JobStart_status(document) ==
    [document EXCEPT !.status = "PROCESSING", !.started = utcnow]

\* Step 2: status PROCESSING, start timestamp, commit (lines 95-98).
JobStart(w) ==
    /\ workers[w].pc = "loaded"
    /\ workers[w].task = "process_document"
    /\ LET d == workers[w].target
           document == JobStart_status(workers[w].cur)
       IN  IF d \in DOMAIN docs
           THEN /\ docs' = [docs EXCEPT ![d] =
                              FlushRow(@, workers[w].loaded, document)]
                /\ workers' = [workers EXCEPT ![w].pc = "started",
                                  ![w].loaded = document,
                                  ![w].cur = document]
           ELSE /\ workers' = [workers EXCEPT ![w].pc = "except",
                                  ![w].error = "stale row"]
                /\ UNCHANGED docs
    /\ UNCHANGED <<provided, authVars, pipelineVars, hits>>
    /\ UNCHANGED <<chunks, rfps, files, queue, reqs, resp, ctr>>

\* Step 3 without text: status FAILED with the explanatory error, commit,
\* structured failure result (lines 106-115).
JobExtractFails(w) ==
    /\ workers[w].pc = "started"
    /\ workers[w].task = "process_document"
    /\ LET d == workers[w].target
           document == [workers[w].cur EXCEPT !.status = "FAILED",
                           !.error = "Failed to extract text from document",
                           !.completed = utcnow]
       IN  IF d \in DOMAIN docs
           THEN /\ docs' = [docs EXCEPT ![d] =
                              FlushRow(@, workers[w].loaded, document)]
                /\ workers' = [workers EXCEPT ![w].pc = "return",
                                  ![w].loaded = document,
                                  ![w].cur = document,
                                  ![w].error = "Text extraction failed"]
           ELSE /\ workers' = [workers EXCEPT ![w].pc = "except",
                                  ![w].error = "stale row"]
                /\ UNCHANGED docs
    /\ UNCHANGED <<provided, authVars, pipelineVars, hits>>
    /\ UNCHANGED <<chunks, rfps, files, queue, reqs, resp, ctr>>

\* The chunk ids the RAG boundary has handed out and that are still held.
KnownChunkIds ==
    {c.chunk_id : c \in chunks} \cup
        UNION {{workers[v].chunk_ids[i] : i \in 1..Len(workers[v].chunk_ids)} :
                 v \in Workers}

\* Steps 3 and 4 with text: processor.index_document returns an ordered
\* list of fresh chunk ids (lines 106, 123-126).
JobIndex(w) ==
    /\ workers[w].pc = "started"
    /\ workers[w].task = "process_document"
    /\ extract_text_from_file_can_succeed(workers[w].cur.file_path)
    /\ \E n \in 0..MaxChunks :
        workers' = [workers EXCEPT ![w].pc = "indexed",
                       ![w].chunk_ids = [i \in 1..n |-> Fresh(KnownChunkIds, i)]]
    /\ UNCHANGED <<provided, authVars, pipelineVars, hits>>
    /\ UNCHANGED <<docs, chunks, rfps, files, queue, reqs, resp, ctr>>

\* Step 4 raising: the call into the RAG boundary fails, at most budget
\* times in a behaviour.
JobIndexRaisesWithin(w, budget) ==
    /\ workers[w].pc = "started"
    /\ workers[w].task = "process_document"
    /\ extract_text_from_file_can_succeed(workers[w].cur.file_path)
    /\ ctr.raised < budget
    /\ workers' = [workers EXCEPT ![w].pc = "except",
                      ![w].error = "index_document raised"]
    /\ ctr' = [ctr EXCEPT !.raised = @ + 1]
    /\ UNCHANGED <<provided, authVars, pipelineVars, hits>>
    /\ UNCHANGED <<docs, chunks, rfps, files, queue, reqs, resp>>

JobIndexRaises(w) == JobIndexRaisesWithin(w, MaxRaise)

\* Primary keys of chunk rows that exist or that an open transaction has
\* marked for deletion.
KnownChunkRows ==
    {c.id : c \in chunks} \cup {c.id : c \in LockedBy(ReqSlots)}

\* The chunk rows of step 5 (lines 133-144): chunk_index is the position
\* in the returned list, counted from 0.
NewChunks(d, chunk_ids) ==
    {[id |-> Fresh(KnownChunkRows, i), document |-> d, chunk_index |-> i - 1,
      chunk_id |-> chunk_ids[i]] : i \in 1..Len(chunk_ids)}

\* Step 5: bulk insert, chunk count, status COMPLETED, commit (lines
\* 133-165).  Without the document row the flush raises.
JobComplete(w) ==
    /\ workers[w].pc = "indexed"
    /\ workers[w].task = "process_document"
    /\ LET d == workers[w].target
           chunk_ids == workers[w].chunk_ids
           document == [workers[w].cur EXCEPT
                           !.chunk_count = Len(chunk_ids),
                           !.status = "COMPLETED",
                           !.completed = utcnow]
       IN  IF d \in DOMAIN docs
           THEN /\ chunks' = chunks \cup NewChunks(d, chunk_ids)
                /\ docs' = [docs EXCEPT ![d] =
                              FlushRow(@, workers[w].loaded, document)]
                /\ workers' = [workers EXCEPT ![w].pc = "return",
                                  ![w].loaded = document,
                                  ![w].cur = document]
           ELSE /\ workers' = [workers EXCEPT ![w].pc = "except",
                                  ![w].error = "stale row"]
                /\ UNCHANGED <<docs, chunks>>
    /\ UNCHANGED <<provided, authVars, pipelineVars, hits>>
    /\ UNCHANGED <<rfps, files, queue, reqs, resp, ctr>>

process_document_except_NoError(document, e) ==
    [document EXCEPT !.status = "FAILED", !.completed = utcnow]

\* The assignments of the exception handler on the document it has read
\* again (lines 195-198).
process_document_except(document, e) ==
    [document EXCEPT !.status = "FAILED", !.error = e, !.completed = utcnow]

\* The exception handler (lines 180-209): rollback, the document read
\* again and committed FAILED with the error text; the exception is
\* raised again.
JobExcept(w) ==
    /\ workers[w].pc = "except"
    /\ workers[w].task = "process_document"
    /\ LET d == workers[w].target
           found == {x \in DOMAIN docs :
                       x = d /\ docs[x].company = workers[w].company}
       IN  docs' = IF found = {} THEN docs
                   ELSE [docs EXCEPT ![d] =
                           process_document_except(@, workers[w].error)]
    /\ workers' = [workers EXCEPT ![w].pc = "raised",
                      ![w].loaded = NoRow, ![w].cur = NoRow]
    /\ UNCHANGED <<provided, authVars, pipelineVars, hits>>
    /\ UNCHANGED <<chunks, rfps, files, queue, reqs, resp, ctr>>

\* self.retry in process_document (lines 51-59), reached when the
\* session is closed and run_until_complete has passed the exception
\* on: the retry message is published while retries remain.
JobRetry(w) ==
    /\ workers[w].pc = "raised"
    /\ workers[w].task = "process_document"
    /\ IF should_retry(workers[w].retries)
       THEN queue' = queue \cup
                  {[Message("process_document", workers[w].target,
                            workers[w].company, workers[w].retries + 1)
                        EXCEPT !.countdown = retry_countdown]}
       ELSE UNCHANGED queue
    /\ workers' = [workers EXCEPT ![w].pc = "return"]
    /\ UNCHANGED <<provided, authVars, pipelineVars, hits>>
    /\ UNCHANGED <<docs, chunks, rfps, files, reqs, resp, ctr>>

\* The task has returned or raised: the message is acknowledged
\* (task_acks_late, celery_app.py line 60).
JobAck(w) ==
    /\ workers[w].pc = "return"
    /\ queue' = queue \ Reserved(w)
    /\ workers' = [workers EXCEPT ![w] = IdleWorker]
    /\ UNCHANGED <<provided, authVars, pipelineVars, hits>>
    /\ UNCHANGED <<docs, chunks, rfps, files, reqs, resp, ctr>>

\* The worker process dies during a job: its open transaction is gone and
\* the unacknowledged message is requeued (task_reject_on_worker_lost,
\* celery_app.py line 61).
WorkerLost(w) ==
    /\ workers[w].pc # "idle"
    /\ ctr.lost < MaxLost
    /\ queue' = (queue \ Reserved(w)) \cup
                    {[m EXCEPT !.worker = 0] : m \in Reserved(w)}
    /\ workers' = [workers EXCEPT ![w] = IdleWorker]
    /\ ctr' = [ctr EXCEPT !.lost = @ + 1]
    /\ UNCHANGED <<provided, authVars, pipelineVars, hits>>
    /\ UNCHANGED <<docs, chunks, rfps, files, reqs, resp>>

-----------------------------------------------------------------------------
(* RFP Processing Job: app/tasks/rfp_tasks.py process_rfp_document and
   app/services/rfp_service.py RfpService.process_rfp_sync *)

find_rfp_document_None(rfp_id) == {}

\* session.query(RfpDocument).filter(rfp_id == id).first()
find_rfp_document(rfp_id) == {x \in DOMAIN rfps : x = rfp_id}

rfp_not_found_Raises(job) ==
    [job EXCEPT !.pc = "except", !.error = "not found"]

\* rfp_tasks.py lines 54-56: without a row the task logs and returns.
rfp_not_found(job) ==
    [job EXCEPT !.pc = "return", !.error = "not found"]

\* rfp_tasks.py lines 40-47 when utils/config.py has no
\* get_database_url: the import of line 44 raises ImportError inside
\* the try block, before any row is read, and the handler of lines
\* 64-66 is entered.
get_database_url_raises(job) ==
    [job EXCEPT !.pc = "raised", !.error = "ImportError"]

\* A worker that has started takes a ready message,
\* process_rfp_document opens its session (rfp_tasks.py lines 42-50) and
\* looks the RFP up (lines 50-56); without a row the task returns.
RfpJobLoad(w) ==
    /\ workers[w].pc = "idle"
    /\ worker_starts
    /\ \E m \in queue :
        /\ m.worker = 0
        /\ m.task = "process_rfp_document"
        /\ queue' = (queue \ {m}) \cup {[m EXCEPT !.worker = w]}
        /\ LET job == [IdleWorker EXCEPT !.msg = m.id, !.task = m.task,
                          !.target = m.target, !.company = m.company,
                          !.retries = m.retries]
           IN  workers' = [workers EXCEPT ![w] =
                  IF ~session_opens(m.task)
                  THEN get_database_url_raises(job)
                  ELSE IF find_rfp_document(m.target) = {}
                  THEN rfp_not_found(job)
                  ELSE [job EXCEPT !.pc = "loaded",
                                   !.loaded = rfps[m.target],
                                   !.cur = rfps[m.target]]]
    /\ UNCHANGED <<provided, authVars, pipelineVars, hits>>
    /\ UNCHANGED <<docs, chunks, rfps, files, reqs, resp, ctr>>

\* Status PROCESSING, start timestamp, commit (rfp_service.py lines
\* 276-279).
RfpJobStart(w) ==
    /\ workers[w].pc = "loaded"
    /\ workers[w].task = "process_rfp_document"
    /\ LET x == workers[w].target
           rfp_document == [workers[w].cur EXCEPT !.status = "PROCESSING",
                                                  !.started = utcnow]
       IN  /\ rfps' = [rfps EXCEPT ![x] =
                          FlushRow(@, workers[w].loaded, rfp_document)]
           /\ workers' = [workers EXCEPT ![w].pc = "started",
                             ![w].loaded = rfp_document,
                             ![w].cur = rfp_document]
    /\ UNCHANGED <<provided, authVars, pipelineVars, hits>>
    /\ UNCHANGED <<docs, chunks, files, queue, reqs, resp, ctr>>

\* self.file_storage.extract_text(rfp_document.file_path) (line 282) or
\* document_processor.extract_questions(file_content) (line 285) raises.
\* With the FileStorage of utils/file_storage.py, which has no attribute
\* extract_text, line 282 raises AttributeError.
RfpJobExtractRaises(w) ==
    /\ workers[w].pc = "started"
    /\ workers[w].task = "process_rfp_document"
    /\ workers' = [workers EXCEPT ![w].pc = "except",
                      ![w].error =
                        IF "extract_text" \in Defined
                        THEN "extraction raised"
                        ELSE "AttributeError: extract_text"]
    /\ UNCHANGED <<provided, authVars, pipelineVars, hits>>
    /\ UNCHANGED <<docs, chunks, rfps, files, queue, reqs, resp, ctr>>

MaxQuestions == 2

\* The text extraction of the RFP pipeline, as specified: the extraction
\* rules of the Document Processing Job applied to the stored file.
extract_text_returns(file_path) ==
    extract_text_from_file_can_succeed(file_path)

\* Lines 282-289 returning: the text is extracted, the RAG boundary
\* returns an ordered list of n questions, and the question count is
\* assigned on the RFP (written by the next commit).
RfpJobExtractQuestions(w) ==
    /\ workers[w].pc = "started"
    /\ workers[w].task = "process_rfp_document"
    /\ "extract_text" \in Defined
    /\ extract_text_returns(workers[w].cur.file_path)
    /\ \E n \in 0..MaxQuestions :
        workers' = [workers EXCEPT ![w].pc = "loop",
                       ![w].n = n, ![w].i = 0,
                       ![w].cur = [@ EXCEPT !.questions_count = n]]
    /\ UNCHANGED <<provided, authVars, pipelineVars, hits>>
    /\ UNCHANGED <<docs, chunks, rfps, files, queue, reqs, resp, ctr>>

\* enumerate(extraction_result.questions, 1): the number of the i-th
\* question taken from the list, i counted from 0.
question_number(i) == i + 1

\* Lines 292-303: the question row of the next question, status
\* PROCESSING, committed together with what is pending on the RFP.
RfpJobAddQuestion(w) ==
    /\ workers[w].pc = "loop"
    /\ workers[w].i < workers[w].n
    /\ LET x == workers[w].target
           id == Fresh({q.id : q \in questions}, 1)
       IN  /\ questions' = questions \cup
                  {[id |-> id, rfp |-> x,
                    question_number |-> question_number(workers[w].i),
                    answer_status |-> "PROCESSING",
                    generated_answer |-> NoText,
                    confidence_score |-> NoText]}
           /\ rfps' = [rfps EXCEPT ![x] =
                          FlushRow(@, workers[w].loaded, workers[w].cur)]
           /\ workers' = [workers EXCEPT ![w].pc = "answer", ![w].q = id,
                             ![w].loaded = workers[w].cur]
    /\ UNCHANGED <<provided, authVars, matches, hits>>
    /\ UNCHANGED <<docs, chunks, files, queue, reqs, resp, ctr>>

\* The chunk ids the answering capability may cite for a company: chunk
\* ids of its indexed corpus, some of which may have no chunk row.
CitableChunkIds(company_id) ==
    {c.chunk_id : c \in {k \in chunks : k.document \in DOMAIN docs
                                       /\ docs[k.document].company = company_id}}
        \cup {NoId}

document_of_chunk_AnyCompany(company_id, chunk_id) ==
    {d \in DOMAIN docs :
        \E c \in chunks : c.document = d /\ c.chunk_id = chunk_id}

\* The documents of a company owning a chunk row with the chunk id
\* (lines 319-324).
document_of_chunk(company_id, chunk_id) ==
    {d \in DOMAIN docs :
        /\ docs[d].company = company_id
        /\ \E c \in chunks : c.document = d /\ c.chunk_id = chunk_id}

\* Lines 307-334: answer_question, called with the company id of the
\* RFP, returns chunk ids out of chunk_ids; the question is set ANSWERED
\* and one match per cited chunk id with an owning document is added to
\* the session.
RfpJobAnswerCiting(w, chunk_ids) ==
    /\ workers[w].pc = "answer"
    /\ \E cited \in SUBSET chunk_ids :
        workers' = [workers EXCEPT ![w].pc = "answered",
            ![w].isolation_key = workers[w].cur.company,
            ![w].found =
                {[document |-> d, chunk_id |-> c] :
                    <<d, c>> \in
                        {<<CHOOSE d \in document_of_chunk(
                                           workers[w].cur.company, c) : TRUE,
                           c>> :
                            c \in {k \in cited :
                                     document_of_chunk(
                                         workers[w].cur.company, k) # {}}}}]
    /\ UNCHANGED <<provided, authVars, pipelineVars, hits>>
    /\ UNCHANGED <<docs, chunks, rfps, files, queue, reqs, resp, ctr>>

RfpJobAnswer(w) ==
    RfpJobAnswerCiting(w, CitableChunkIds(workers[w].cur.company))

\* Lines 310-312: the answer, its confidence score and status ANSWERED,
\* as the commit of line 336 writes them.
question_answered(rows, id) ==
    {IF q.id = id THEN [q EXCEPT !.generated_answer = "answer",
                                 !.confidence_score = "score",
                                 !.answer_status = "ANSWERED"]
                  ELSE q : q \in rows}

\* The question row with a given id.
QuestionRow(id) == CHOOSE q \in questions : q.id = id

\* The question object of the session when an exception is raised
\* after `assigned` of the assignments of lines 310-312 were executed:
\* the answer, then the confidence score, then status ANSWERED.
question_assigned(question, assigned) ==
    [question EXCEPT
        !.generated_answer = IF assigned >= 1 THEN "answer" ELSE @,
        !.confidence_score = IF assigned >= 2 THEN "score" ELSE @,
        !.answer_status = IF assigned >= 3 THEN "ANSWERED" ELSE @]

\* Lines 338-341: question.answer_status = AnswerStatus.FAILED, commit.
\* The handler neither rolls back nor resets anything: the commit
\* writes the question object as the session holds it, with status
\* FAILED.
question_failed(rows, question) ==
    {IF q.id = question.id
     THEN [question EXCEPT !.answer_status = "FAILED"]
     ELSE q : q \in rows}

matches_insertable_Unchecked(found) == TRUE

\* The foreign key of question_document_matches.document_id: the INSERT
\* needs the referenced documents.
matches_insertable(found) == \A m \in found : m.document \in DOMAIN docs

NewMatches(q, found) ==
    LET RECURSIVE Rows(_, _)
        Rows(rest, used) ==
            IF rest = {} THEN {}
            ELSE LET m == CHOOSE m \in rest : TRUE
                     id == Fresh(used, 1)
                 IN  {[id |-> id, question |-> q, document |-> m.document,
                       chunk_ids |-> <<m.chunk_id>>]}
                        \cup Rows(rest \ {m}, used \cup {id})
    IN  Rows(found, {m.id : m \in matches})

\* Line 336: the commit of the answer and its matches.  When a matched
\* document is gone the INSERT fails in the flush of the commit and the
\* session is left with a rolled-back transaction that was not ended by
\* rollback(): the handler of lines 338-341 and the handler of lines
\* 348-352 both touch the session, get PendingRollbackError and write
\* nothing, and the task ends with that exception (rfp_tasks.py lines
\* 64-66).  Question and RFP keep the PROCESSING they were committed
\* with.
RfpJobCommitAnswer(w) ==
    /\ workers[w].pc = "answered"
    /\ IF matches_insertable(workers[w].found)
       THEN /\ matches' = matches \cup NewMatches(workers[w].q,
                                                   workers[w].found)
            /\ questions' = question_answered(questions, workers[w].q)
            /\ workers' = [workers EXCEPT ![w].pc = "loop", ![w].i = @ + 1,
                              ![w].q = NoId, ![w].found = {},
                              ![w].isolation_key = NoId]
       ELSE /\ UNCHANGED <<questions, matches>>
            /\ workers' = [workers EXCEPT ![w].pc = "raised",
                              ![w].error = "PendingRollbackError",
                              ![w].q = NoId, ![w].found = {},
                              ![w].isolation_key = NoId]
    /\ UNCHANGED <<provided, authVars, hits>>
    /\ UNCHANGED <<docs, chunks, rfps, files, queue, reqs, resp, ctr>>

\* The assignments of lines 310-312.
AnswerAssignments == 3

\* An exception inside the try block of lines 306-336, other than the
\* failing commit of line 336, and the handler of lines 338-341.
\* answer_question raises before anything is assigned; a later
\* exception (the soft time limit of celery_app.py line 50 is raised
\* wherever the job is) finds some of the assignments of lines 310-312
\* made and, once all are made, some of the matches of lines 314-334
\* added to the session.  The handler commits the session as it is:
\* the question FAILED with what was assigned, and the matches that were
\* added.  When a match refers to a document deleted meanwhile that
\* commit fails as the one of line 336 does, and the task ends with the
\* exception.
\* Exceptions after the call are counted and bounded by MaxRaise.
RfpJobAnswerRaises(w) ==
    /\ workers[w].pc \in {"answer", "answered"}
    /\ workers[w].pc = "answered" => ctr.raised < MaxRaise
    /\ ctr' = IF workers[w].pc = "answered"
              THEN [ctr EXCEPT !.raised = @ + 1]
              ELSE ctr
    /\ \E assigned \in 0..AnswerAssignments,
          added \in SUBSET workers[w].found :
        /\ (assigned = 0) = (workers[w].pc = "answer")
        /\ assigned < AnswerAssignments => added = {}
        /\ IF matches_insertable(added)
           THEN /\ questions' =
                      question_failed(questions,
                          question_assigned(QuestionRow(workers[w].q),
                                            assigned))
                /\ matches' = matches \cup NewMatches(workers[w].q, added)
                /\ workers' = [workers EXCEPT ![w].pc = "loop",
                                  ![w].i = @ + 1, ![w].q = NoId,
                                  ![w].found = {},
                                  ![w].isolation_key = NoId]
           ELSE /\ UNCHANGED <<questions, matches>>
                /\ workers' = [workers EXCEPT ![w].pc = "raised",
                                  ![w].error = "PendingRollbackError",
                                  ![w].q = NoId, ![w].found = {},
                                  ![w].isolation_key = NoId]
    /\ UNCHANGED <<provided, authVars, hits>>
    /\ UNCHANGED <<docs, chunks, rfps, files, queue, reqs, resp>>

\* Lines 343-346: after the last question status COMPLETED, end
\* timestamp, commit.
RfpJobFinish(w) ==
    /\ workers[w].pc = "loop"
    /\ workers[w].i = workers[w].n
    /\ LET x == workers[w].target
           rfp_document == [workers[w].cur EXCEPT !.status = "COMPLETED",
                                                  !.completed = utcnow]
       IN  /\ rfps' = [rfps EXCEPT ![x] =
                          FlushRow(@, workers[w].loaded, rfp_document)]
           /\ workers' = [workers EXCEPT ![w].pc = "return",
                             ![w].loaded = rfp_document,
                             ![w].cur = rfp_document]
    /\ UNCHANGED <<provided, authVars, pipelineVars, hits>>
    /\ UNCHANGED <<docs, chunks, files, queue, reqs, resp, ctr>>

process_rfp_sync_except_NoError(rfp_document, e) ==
    [rfp_document EXCEPT !.status = "FAILED"]

\* The assignments of the exception handler (lines 350-351).
process_rfp_sync_except(rfp_document, e) ==
    [rfp_document EXCEPT !.status = "FAILED", !.error = e]

\* The exception handler of process_rfp_sync (lines 348-352): status
\* FAILED, the error text, commit; the task then returns normally.
RfpJobExcept(w) ==
    /\ workers[w].pc = "except"
    /\ workers[w].task = "process_rfp_document"
    /\ LET x == workers[w].target
           rfp_document == process_rfp_sync_except(workers[w].cur,
                                                   workers[w].error)
       IN  /\ rfps' = [rfps EXCEPT ![x] =
                          FlushRow(@, workers[w].loaded, rfp_document)]
           /\ workers' = [workers EXCEPT ![w].pc = "return",
                             ![w].loaded = rfp_document,
                             ![w].cur = rfp_document]
    /\ UNCHANGED <<provided, authVars, pipelineVars, hits>>
    /\ UNCHANGED <<docs, chunks, files, queue, reqs, resp, ctr>>

\* The handler of process_rfp_document (rfp_tasks.py lines 64-66): an
\* exception that process_rfp_sync did not handle, or the ImportError
\* of line 44, is logged and raised again.  The task is declared
\* without retry policy (line 30), so the task fails and nothing is
\* published.
RfpJobRaise(w) ==
    /\ workers[w].pc = "raised"
    /\ workers[w].task = "process_rfp_document"
    /\ workers' = [workers EXCEPT ![w].pc = "return"]
    /\ UNCHANGED <<provided, authVars, pipelineVars, hits>>
    /\ UNCHANGED <<docs, chunks, rfps, files, queue, reqs, resp, ctr>>

-----------------------------------------------------------------------------
(* Specifications *)

\* A company as register_company stores it.
Registered(id, name) ==
    [id |-> id, name |-> name, api_key |-> hash_api_key(id, 1),
     is_active |-> TRUE]

RegisteredCompanies(n) ==
    {Registered(i, IF i = 1 THEN "Acme" ELSE "Globex") : i \in 1..n}

\* The credentials the n registered companies were issued.
IssuedAtStart(n) ==
    {[companyId |-> c.id, companyName |-> c.name, apiKey |-> c.id] :
        c \in RegisteredCompanies(n)}

\* n registered companies, no request in flight, idle workers.
InitIdle(n) ==
    /\ companies = RegisteredCompanies(n)
    /\ regs = [s \in RegSlots |-> IdleReg]
    /\ issued = IssuedAtStart(n)
    /\ queue = {}
    /\ workers = [w \in Workers |-> IdleWorker]
    /\ reqs = [r \in ReqSlots |-> IdleReq]
    /\ resp = NoResp
    /\ hits = NoHits
    /\ ctr = [company |-> n, key |-> n, doc |-> 0, rfp |-> 0,
              reprocess |-> 0, raised |-> 0, lost |-> 0]
    /\ provided \in Deployments

\* The store with n registered companies and nothing uploaded.
InitStore(n) ==
    /\ InitIdle(n)
    /\ questions = {}
    /\ matches = {}
    /\ docs = <<>>
    /\ chunks = {}
    /\ rfps = <<>>
    /\ files = {}

\* A well-formed upload.
GoodFile == [size |-> 1, content_type |-> "application/pdf",
             filename |-> <<"a", ".", "p", "d", "f">>]

\* A worker executing Document Processing Jobs.
DocumentWorker(w) ==
    \/ JobLoad(w)
    \/ JobStart(w)
    \/ JobExtractFails(w)
    \/ JobIndex(w)
    \/ JobIndexRaises(w)
    \/ JobComplete(w)
    \/ JobExcept(w)
    \/ JobRetry(w)
    \/ JobAck(w)
    \/ WorkerLost(w)

\* Document lifecycle of one company: uploads, manual reprocess and the
\* workers, in every interleaving.
Init == InitStore(1)

Next ==
    \/ \E r \in ReqSlots : UploadDocumentBegin(r, 1, 1, GoodFile)
    \/ \E r \in ReqSlots : UploadDocumentCommit(r)
    \/ \E r \in ReqSlots : UploadDocumentEnqueue(r)
    \/ \E r \in ReqSlots, d \in 1..MaxDocs : ReprocessRead(r, 1, 1, d)
    \/ \E r \in ReqSlots : ReprocessPurgeEnqueue(r)
    \/ \E r \in ReqSlots : ReprocessCommit(r)
    \/ \E r \in ReqSlots : ReprocessReply(r)
    \/ \E w \in Workers : DocumentWorker(w)

Spec == Init /\ [][Next]_vars

\* Scheduling: a request that has started runs to its end, and a worker
\* keeps executing the job it holds and taking ready messages
\* (celery_app.py); every call of a job returns or raises.  Nothing
\* obliges a worker process to die.
Fair ==
    /\ \A r \in ReqSlots :
          /\ WF_vars(UploadDocumentCommit(r))
          /\ WF_vars(UploadDocumentEnqueue(r))
          /\ WF_vars(ReprocessPurgeEnqueue(r))
          /\ WF_vars(ReprocessCommit(r))
          /\ WF_vars(ReprocessReply(r))
    /\ \A w \in Workers :
          /\ WF_vars(JobLoad(w))
          /\ WF_vars(JobStart(w))
          /\ WF_vars(JobExtractFails(w) \/ JobIndex(w) \/ JobIndexRaises(w))
          /\ WF_vars(JobComplete(w))
          /\ WF_vars(JobExcept(w))
          /\ WF_vars(JobRetry(w))
          /\ WF_vars(JobAck(w))

FairSpec == Spec /\ Fair

\* Registration and authentication starting from an empty company table.
InitAuth == InitStore(0)

NextAuth ==
    \/ \E s \in RegSlots, n \in Names : RegisterCheck(OtherClient, s, n)
    \/ \E s \in RegSlots : RegisterCommit(s)
    \/ \E n \in Names, k \in KeyGuesses : Authenticate(n, k)
    \/ \E scheme \in Schemes, k \in KeyGuesses : Profile(scheme, k)
    \/ \E id \in 1..MaxCompanies, flag \in BOOLEAN : SetActive(id, flag)

SpecAuth == InitAuth /\ [][NextAuth]_vars

-----------------------------------------------------------------------------
(* Tenant scoping: two companies, the second owning a processed document
   and an uploaded RFP, and callers presenting any credential on any path *)

CompanyIds == {c.id : c \in RegisteredCompanies(2)}

\* The companies that own records at the start.
Owners == {c \in CompanyIds : c = Cardinality(CompanyIds)}

\* Row ids of the records a company owns at the start; uploads take the
\* ids 1..MaxDocs and 1..MaxRfps.
TenantDoc(c) == MaxDocs + c
TenantRfp(c) == MaxRfps + c

\* The documents requests name: the first one uploaded and the owners'.
DocIds == {Fresh({}, 1)} \cup {TenantDoc(c) : c \in Owners}
RfpIds == {TenantRfp(c) : c \in Owners}

PdfExt == <<".", "p", "d", "f">>

\* A document as a finished job leaves it, with its one chunk row.
TenantDocRow(c) ==
    [NoRow EXCEPT !.company = c,
        !.file_path = [company |-> c, name |-> <<"doc", TenantDoc(c)>>,
                       ext |-> PdfExt],
        !.status = "COMPLETED", !.started = utcnow, !.completed = utcnow,
        !.chunk_count = 1]

\* An RFP as upload_rfp commits it.
TenantRfpRow(c) ==
    [NoRfp EXCEPT !.company = c,
        !.file_path = [company |-> c, name |-> <<"rfp", TenantRfp(c)>>,
                       ext |-> PdfExt],
        !.status = "PENDING"]

InitTenant ==
    /\ InitIdle(2)
    /\ questions = {}
    /\ matches = {}
    /\ docs = [d \in {TenantDoc(c) : c \in Owners} |->
                 TenantDocRow(d - MaxDocs)]
    /\ chunks = {[id |-> c, document |-> TenantDoc(c), chunk_index |-> 0,
                  chunk_id |-> c] : c \in Owners}
    /\ rfps = [x \in {TenantRfp(c) : c \in Owners} |->
                 TenantRfpRow(x - MaxRfps)]
    /\ files = {TenantDocRow(c).file_path : c \in Owners} \cup
               {TenantRfpRow(c).file_path : c \in Owners}

\* Requests of the tenant-scoping scenario are served one at a time.
TenantSlots == {1}

\* The credentials presented: the registered companies' own.
TenantKeys == {i.apiKey : i \in IssuedAtStart(2)}

NextTenant ==
    \/ \E r \in TenantSlots, k \in TenantKeys, path \in CompanyIds :
          UploadDocumentBegin(r, k, path, GoodFile)
    \/ \E r \in TenantSlots : UploadDocumentCommit(r)
    \/ \E r \in TenantSlots : UploadDocumentEnqueue(r)
    \/ \E r \in TenantSlots, k \in TenantKeys, path \in CompanyIds :
          UploadRfpBegin(r, OtherClient, k, path, GoodFile)
    \/ \E r \in TenantSlots : UploadRfpCommit(r)
    \/ \E r \in TenantSlots : UploadRfpEnqueue(r)
    \/ \E k \in TenantKeys, path \in CompanyIds :
          ListDocuments(k, path, NoText)
    \/ \E k \in TenantKeys, path \in CompanyIds, d \in DocIds :
          GetDocumentStatus(k, path, d)
    \/ \E k \in TenantKeys, path \in CompanyIds, x \in RfpIds :
          GetRfpStatus(k, path, x)
    \/ \E r \in TenantSlots, k \in TenantKeys, path \in CompanyIds,
          d \in DocIds : DeleteDocumentBegin(r, k, path, d)
    \/ \E r \in TenantSlots : DeleteDocumentCommit(r)
    \/ \E r \in TenantSlots, k \in TenantKeys, path \in CompanyIds,
          d \in DocIds : ReprocessRead(r, k, path, d)
    \/ \E r \in TenantSlots : ReprocessPurgeEnqueue(r)
    \/ \E r \in TenantSlots : ReprocessCommit(r)
    \/ \E r \in TenantSlots : ReprocessReply(r)

SpecTenant == InitTenant /\ [][NextTenant]_vars

-----------------------------------------------------------------------------
(* Upload validation: one company uploading documents and RFPs of every
   size, declared type and file name *)

UploadSizes == {1, MAX_FILE_SIZE, MAX_FILE_SIZE + 1}

UploadTypes == ALLOWED_MIME_TYPES \cup {"text/plain"}

UploadNames ==
    {<<>>,
     <<"a", ".", "p", "d", "f">>,
     <<"a", ".", "P", "D", "F">>,
     <<"a", ".", "D", "O", "C">>,
     <<"A", ".", "D", "O", "C", "X">>,
     <<"a", ".", "d", "o", "c", "x">>,
     <<"a", ".", "d", "o", "c">>,
     <<"a", ".", "t", "x", "t">>,
     <<"a">>,
     <<".", "p", "d", "f">>,
     <<"a", ".", "p", "d", "f", ".">>,
     <<"d", "/", "a", ".", "d", "o", "c">>}

\* Uploads that differ from the well-formed one in size, declared type or
\* file name, and uploads wrong in two respects.
UploadFiles ==
    {[GoodFile EXCEPT !.size = n] : n \in UploadSizes} \cup
    {[GoodFile EXCEPT !.content_type = t] : t \in UploadTypes} \cup
    {[GoodFile EXCEPT !.filename = f] : f \in UploadNames} \cup
    {[GoodFile EXCEPT !.size = MAX_FILE_SIZE, !.filename = f] :
        f \in UploadNames} \cup
    {[size |-> MAX_FILE_SIZE + 1, content_type |-> "text/plain",
      filename |-> f] : f \in UploadNames}

\* The credentials presented: none, and the company's own.
UploadKeys == {NoId} \cup {i.apiKey : i \in IssuedAtStart(1)}

InitUpload == InitStore(1)

NextUpload ==
    \/ \E k \in UploadKeys, file \in UploadFiles :
          UploadDocumentBegin(1, k, 1, file)
    \/ UploadDocumentCommit(1)
    \/ UploadDocumentEnqueue(1)
    \/ \E k \in UploadKeys, file \in UploadFiles :
          UploadRfpBegin(1, OtherClient, k, 1, file)
    \/ UploadRfpCommit(1)
    \/ UploadRfpEnqueue(1)

SpecUpload == InitUpload /\ [][NextUpload]_vars

\* A worker executing RFP Processing Jobs.
RfpWorker(w) ==
    \/ RfpJobLoad(w)
    \/ RfpJobStart(w)
    \/ RfpJobExtractRaises(w)
    \/ RfpJobExtractQuestions(w)
    \/ RfpJobAddQuestion(w)
    \/ RfpJobAnswer(w)
    \/ RfpJobAnswerRaises(w)
    \/ RfpJobCommitAnswer(w)
    \/ RfpJobFinish(w)
    \/ RfpJobExcept(w)
    \/ RfpJobRaise(w)
    \/ JobAck(w)
    \/ WorkerLost(w)

\* The files uploaded in the pipeline and retry scenarios: a PDF and a
\* DOCX file.
RfpFiles ==
    {GoodFile, [GoodFile EXCEPT !.filename = <<"a", ".", "d", "o", "c", "x">>]}

\* RFP lifecycle of one company that has one indexed document: uploads,
\* status polls and the workers.
InitRfp ==
    /\ InitIdle(1)
    /\ questions = {}
    /\ matches = {}
    /\ docs = (MaxDocs + 1 :> TenantDocRow(1))
    /\ chunks = {[id |-> 1, document |-> MaxDocs + 1, chunk_index |-> 0,
                  chunk_id |-> 1]}
    /\ rfps = <<>>
    /\ files = {TenantDocRow(1).file_path}

NextRfp ==
    \/ \E r \in ReqSlots, file \in RfpFiles :
          UploadRfpBegin(r, OtherClient, 1, 1, file)
    \/ \E r \in ReqSlots : UploadRfpCommit(r)
    \/ \E r \in ReqSlots : UploadRfpEnqueue(r)
    \/ \E x \in 1..MaxRfps : GetRfpStatus(1, 1, x)
    \/ \E w \in Workers : RfpWorker(w)

SpecRfp == InitRfp /\ [][NextRfp]_vars

\* Workers keep executing the jobs they are given and an upload request
\* runs to its response; nothing obliges a worker process to be lost.
FairRfp ==
    /\ \A r \in ReqSlots : WF_vars(UploadRfpCommit(r))
    /\ \A r \in ReqSlots : WF_vars(UploadRfpEnqueue(r))
    /\ \A w \in Workers :
          /\ WF_vars(RfpJobLoad(w))
          /\ WF_vars(RfpJobStart(w))
          /\ WF_vars(RfpJobExtractRaises(w) \/ RfpJobExtractQuestions(w))
          /\ WF_vars(RfpJobAddQuestion(w))
          /\ WF_vars(RfpJobAnswer(w) \/ RfpJobAnswerRaises(w))
          /\ WF_vars(RfpJobCommitAnswer(w))
          /\ WF_vars(RfpJobFinish(w))
          /\ WF_vars(RfpJobExcept(w))
          /\ WF_vars(RfpJobRaise(w))
          /\ WF_vars(JobAck(w))

FairSpecRfp == SpecRfp /\ FairRfp

\* The RFP lifecycle while the owner deletes the indexed document the
\* answers cite: the delete request runs to its commit as the upload
\* requests run to theirs.
NextRfpDelete ==
    \/ \E r \in ReqSlots : UploadRfpBegin(r, OtherClient, 1, 1, GoodFile)
    \/ \E r \in ReqSlots : UploadRfpCommit(r)
    \/ \E r \in ReqSlots : UploadRfpEnqueue(r)
    \/ \E r \in ReqSlots : DeleteDocumentBegin(r, 1, 1, MaxDocs + 1)
    \/ \E r \in ReqSlots : DeleteDocumentCommit(r)
    \/ \E w \in Workers : RfpWorker(w)

SpecRfpDelete == InitRfp /\ [][NextRfpDelete]_vars

FairSpecRfpDelete ==
    /\ SpecRfpDelete
    /\ FairRfp
    /\ \A r \in ReqSlots : WF_vars(DeleteDocumentCommit(r))

\* Deletion and manual reprocess of an indexed document while document
\* jobs and the RFP pipeline of the same company are in flight.
CascadeSlots == {1}

InitCascade == InitRfp

NextCascade ==
    \/ \E r \in CascadeSlots : UploadRfpBegin(r, OtherClient, 1, 1, GoodFile)
    \/ \E r \in CascadeSlots : UploadRfpCommit(r)
    \/ \E r \in CascadeSlots : UploadRfpEnqueue(r)
    \/ \E r \in CascadeSlots : DeleteDocumentBegin(r, 1, 1, MaxDocs + 1)
    \/ \E r \in CascadeSlots : DeleteDocumentCommit(r)
    \/ \E r \in CascadeSlots : ReprocessRead(r, 1, 1, MaxDocs + 1)
    \/ \E r \in CascadeSlots : ReprocessPurgeEnqueue(r)
    \/ \E r \in CascadeSlots : ReprocessCommit(r)
    \/ \E r \in CascadeSlots : ReprocessReply(r)
    \/ \E w \in Workers : DocumentWorker(w)
    \/ \E w \in Workers : RfpWorker(w)

SpecCascade == InitCascade /\ [][NextCascade]_vars

\* A document whose indexing keeps raising: uploads and a worker whose
\* calls into the RAG boundary may fail MaxFailures times, the worker
\* process staying alive.
MaxFailures == 5

RetryWorker(w) ==
    \/ JobLoad(w)
    \/ JobStart(w)
    \/ JobExtractFails(w)
    \/ JobIndex(w)
    \/ JobIndexRaisesWithin(w, MaxFailures)
    \/ JobComplete(w)
    \/ JobExcept(w)
    \/ JobRetry(w)
    \/ JobAck(w)

InitRetry == InitStore(1)

NextRetry ==
    \/ \E r \in ReqSlots, k \in KeyGuesses, file \in RfpFiles :
          UploadDocumentBegin(r, k, 1, file)
    \/ \E r \in ReqSlots : UploadDocumentCommit(r)
    \/ \E r \in ReqSlots : UploadDocumentEnqueue(r)
    \/ \E w \in Workers : RetryWorker(w)

SpecRetry == InitRetry /\ [][NextRetry]_vars

\* Registration called by counted clients while time passes; requests
\* are served one at a time.
InitLimit == InitStore(1)

NextLimit ==
    \/ \E client \in Clients, n \in Names : RegisterCheck(client, 1, n)
    \/ RegisterCommit(1)
    \/ Tick

SpecLimit == InitLimit /\ [][NextLimit]_vars

\* The origin of a request: the address of the connected peer and the
\* first address of its X-Forwarded-For header, NoId when the header
\* is absent.
ForwardedAddresses == 1..MaxClients

Requests == [peer : Clients, forwarded : {NoId} \cup ForwardedAddresses]

\* slowapi.util.get_remote_address: request.client.host.
get_remote_address(request) == request.peer

\* custom_key_func of utils/limiter.py (lines 7-24), the key function
\* of the limiter main.py stores in app.state.limiter; that limiter has
\* no default limit and decorates no route.
custom_key_func(request) ==
    IF request.forwarded # NoId
    THEN request.forwarded
    ELSE get_remote_address(request)

\* The key function of the limiter whose limit("5/minute") decorates
\* register_company and upload_rfp_document: utils/rate_limiting.py
\* line 13, imported by routes/auth.py line 17 and routes/rfp.py
\* line 13.
key_func(request) == get_remote_address(request)

\* POST /api/v1/companies/register received from an origin.
RegisterFrom(request, s, n) == RegisterCheck(key_func(request), s, n)

NextForwarded ==
    \/ \E request \in Requests, n \in Names : RegisterFrom(request, 1, n)
    \/ RegisterCommit(1)
    \/ Tick

SpecForwarded == InitLimit /\ [][NextForwarded]_vars

\* Deletion of an indexed document whose backing file may be missing or
\* may resist removal, with the RFP pipeline of the company creating
\* matches; requests are served one at a time.
InitDelete ==
    /\ InitIdle(1)
    /\ questions = {}
    /\ matches = {}
    /\ docs = (MaxDocs + 1 :> TenantDocRow(1))
    /\ chunks = {[id |-> 1, document |-> MaxDocs + 1, chunk_index |-> 0,
                  chunk_id |-> 1]}
    /\ rfps = <<>>
    /\ files \in {{}, {TenantDocRow(1).file_path}}

NextDelete ==
    \/ \E r \in CascadeSlots : UploadRfpBegin(r, OtherClient, 1, 1, GoodFile)
    \/ \E r \in CascadeSlots : UploadRfpCommit(r)
    \/ \E r \in CascadeSlots : UploadRfpEnqueue(r)
    \/ \E r \in CascadeSlots, k \in KeyGuesses, d \in {1, MaxDocs + 1},
          unlink_fails \in BOOLEAN :
          DeleteDocumentBeginWith(r, k, 1, d, unlink_fails)
    \/ \E r \in CascadeSlots : DeleteDocumentCommit(r)
    \/ \E w \in Workers : RfpWorker(w)

SpecDelete == InitDelete /\ [][NextDelete]_vars

\* Listing the documents of two companies, with and without a status
\* filter, while documents are uploaded and processed.
ProcessingStatus == {"PENDING", "PROCESSING", "COMPLETED", "FAILED"}

NextList ==
    \/ \E r \in TenantSlots, path \in CompanyIds :
          UploadDocumentBegin(r, path, path, GoodFile)
    \/ \E r \in TenantSlots : UploadDocumentCommit(r)
    \/ \E r \in TenantSlots : UploadDocumentEnqueue(r)
    \/ \E k \in TenantKeys, path \in CompanyIds,
          status_filter \in ProcessingStatus \cup {NoText} :
          ListDocuments(k, path, status_filter)
    \/ \E w \in Workers : DocumentWorker(w)

SpecList == InitTenant /\ [][NextList]_vars

\* Manual reprocess requests for the one indexed document of a company,
\* as many at a time as there are request slots, and the workers.
MaxConcurrent == 2

NextRace ==
    \/ \E r \in ReqSlots :
          ReprocessReadWithin(r, 1, 1, MaxDocs + 1, MaxConcurrent)
    \/ \E r \in ReqSlots : ReprocessPurgeEnqueue(r)
    \/ \E r \in ReqSlots : ReprocessCommit(r)
    \/ \E r \in ReqSlots : ReprocessReply(r)
    \/ \E w \in Workers : DocumentWorker(w)

SpecRace == InitRfp /\ [][NextRace]_vars

\* Uploads of documents and RFPs, deletions of the uploaded document and
\* the workers that execute the jobs of the uploads.
NextFresh ==
    \/ \E r \in ReqSlots : UploadDocumentBegin(r, 1, 1, GoodFile)
    \/ \E r \in ReqSlots : UploadDocumentCommit(r)
    \/ \E r \in ReqSlots : UploadDocumentEnqueue(r)
    \/ \E r \in ReqSlots : UploadRfpBegin(r, OtherClient, 1, 1, GoodFile)
    \/ \E r \in ReqSlots : UploadRfpCommit(r)
    \/ \E r \in ReqSlots : UploadRfpEnqueue(r)
    \/ \E r \in ReqSlots, d \in 1..MaxDocs : DeleteDocumentBegin(r, 1, 1, d)
    \/ \E r \in ReqSlots : DeleteDocumentCommit(r)
    \/ \E w \in Workers : DocumentWorker(w)
    \/ \E w \in Workers : RfpWorker(w)

SpecFresh == Init /\ [][NextFresh]_vars

\* The reference documents tests/validate_step6.py uploads (lines
\* 109-158): a short text written to <name>.txt and posted with the
\* declared content type text/plain.
SampleDocuments ==
    {[size |-> 1, content_type |-> "text/plain",
      filename |-> <<"a", ".", "t", "x", "t">>]}

\* The company of validate_step6.py uploading its sample documents, next to an
\* upload of a well-formed PDF, with the workers processing what was
\* accepted.
NextSample ==
    \/ \E r \in ReqSlots, file \in SampleDocuments \cup {GoodFile} :
          UploadDocumentBegin(r, 1, 1, file)
    \/ \E r \in ReqSlots : UploadDocumentCommit(r)
    \/ \E r \in ReqSlots : UploadDocumentEnqueue(r)
    \/ \E w \in Workers : DocumentWorker(w)

SpecSample == Init /\ [][NextSample]_vars

\* Two companies with one indexed document each; either uploads an RFP,
\* and the answering capability may cite any chunk id of the store.
AnyChunkIds == {c.chunk_id : c \in chunks} \cup {NoId}

IsolationWorker(w) ==
    \/ RfpJobLoad(w)
    \/ RfpJobStart(w)
    \/ RfpJobExtractRaises(w)
    \/ RfpJobExtractQuestions(w)
    \/ RfpJobAddQuestion(w)
    \/ RfpJobAnswerCiting(w, AnyChunkIds)
    \/ RfpJobAnswerRaises(w)
    \/ RfpJobCommitAnswer(w)
    \/ RfpJobFinish(w)
    \/ RfpJobExcept(w)
    \/ RfpJobRaise(w)
    \/ JobAck(w)

InitIsolation ==
    /\ InitIdle(2)
    /\ questions = {}
    /\ matches = {}
    /\ docs = [d \in {TenantDoc(c) : c \in CompanyIds} |->
                 TenantDocRow(d - MaxDocs)]
    /\ chunks = {[id |-> c, document |-> TenantDoc(c), chunk_index |-> 0,
                  chunk_id |-> c] : c \in CompanyIds}
    /\ rfps = <<>>
    /\ files = {TenantDocRow(c).file_path : c \in CompanyIds}

NextIsolation ==
    \/ \E r \in TenantSlots, k \in TenantKeys, path \in CompanyIds,
          file \in RfpFiles : UploadRfpBegin(r, OtherClient, k, path, file)
    \/ \E r \in TenantSlots : UploadRfpCommit(r)
    \/ \E r \in TenantSlots : UploadRfpEnqueue(r)
    \/ \E w \in Workers : IsolationWorker(w)

SpecIsolation == InitIsolation /\ [][NextIsolation]_vars

\* Manual reprocess of the one indexed document of a company whose
\* stored file is present or has gone missing, and the workers.
SpecExtract == InitDelete /\ [][NextRace]_vars

\* process_rfp_document(rfp_id) called with an RFP id that no row has
\* at that moment (rfp_tasks.py lines 30-31), while no other message is
\* queued.
RfpJobPublished(rfp_id) ==
    /\ queue = {}
    /\ rfp_id \notin DOMAIN rfps
    /\ queue' = {Message("process_rfp_document", rfp_id, NoId, 0)}
    /\ UNCHANGED <<provided, authVars, pipelineVars, hits>>
    /\ UNCHANGED <<docs, chunks, rfps, files, workers, reqs, resp, ctr>>

NextRfpJob ==
    \/ \E r \in CascadeSlots, file \in RfpFiles :
          UploadRfpBegin(r, OtherClient, 1, 1, file)
    \/ \E r \in CascadeSlots : UploadRfpCommit(r)
    \/ \E r \in CascadeSlots : UploadRfpEnqueue(r)
    \/ \E rfp_id \in 1..(MaxRfps + 1) : RfpJobPublished(rfp_id)
    \/ \E w \in Workers : RfpWorker(w)

SpecRfpJob == InitRfp /\ [][NextRfpJob]_vars

\* Authentication against a company table whose one row holds a bcrypt
\* hash or a text that is no bcrypt hash.
MalformedHash == [salt |-> NoId, digest |-> NoId]

InitVerify ==
    /\ \E h \in {hash_api_key(1, 1), MalformedHash} :
          companies = {[Registered(1, "Acme") EXCEPT !.api_key = h]}
    /\ regs = [s \in RegSlots |-> IdleReg]
    /\ issued = IssuedAtStart(1)
    /\ queue = {}
    /\ workers = [w \in Workers |-> IdleWorker]
    /\ reqs = [r \in ReqSlots |-> IdleReq]
    /\ resp = NoResp
    /\ hits = NoHits
    /\ ctr = [company |-> 1, key |-> 1, doc |-> 0, rfp |-> 0,
              reprocess |-> 0, raised |-> 0, lost |-> 0]
    /\ provided \in Deployments
    /\ questions = {}
    /\ matches = {}
    /\ docs = <<>>
    /\ chunks = {}
    /\ rfps = <<>>
    /\ files = {}

NextVerify ==
    \/ \E s \in RegSlots, n \in Names : RegisterCheck(OtherClient, s, n)
    \/ \E s \in RegSlots : RegisterCommit(s)
    \/ \E n \in Names, k \in KeyGuesses : Authenticate(n, k)
    \/ \E scheme \in Schemes, k \in KeyGuesses : Profile(scheme, k)
    \/ \E id \in 1..MaxCompanies, flag \in BOOLEAN : SetActive(id, flag)

SpecVerify == InitVerify /\ [][NextVerify]_vars

\* Requests and their database sessions: uploads whose enqueue call
\* returns or raises, deletes and manual reprocess, served one at a time
\* with the document worker running.
SessionSlots == {1}

InitSession == InitStore(1)

NextSession ==
    \/ \E r \in SessionSlots : UploadDocumentBegin(r, 1, 1, GoodFile)
    \/ \E r \in SessionSlots : UploadDocumentCommit(r)
    \/ \E r \in SessionSlots : UploadDocumentEnqueue(r)
    \/ \E r \in SessionSlots : UploadDocumentEnqueueRaises(r)
    \/ \E r \in SessionSlots : UploadRfpBegin(r, OtherClient, 1, 1, GoodFile)
    \/ \E r \in SessionSlots : UploadRfpCommit(r)
    \/ \E r \in SessionSlots : UploadRfpEnqueue(r)
    \/ \E r \in SessionSlots : UploadRfpCommitRaises(r)
    \/ \E r \in SessionSlots : UploadRfpEnqueueRaises(r)
    \/ \E r \in SessionSlots, d \in 1..MaxDocs : DeleteDocumentBegin(r, 1, 1, d)
    \/ \E r \in SessionSlots : DeleteDocumentCommit(r)
    \/ \E r \in SessionSlots, d \in 1..MaxDocs : ReprocessRead(r, 1, 1, d)
    \/ \E r \in SessionSlots : ReprocessPurgeEnqueue(r)
    \/ \E r \in SessionSlots : ReprocessEnqueueRaises(r)
    \/ \E r \in SessionSlots : ReprocessCommit(r)
    \/ \E r \in SessionSlots : ReprocessReply(r)
    \/ \E w \in Workers : DocumentWorker(w)

SpecSession == InitSession /\ [][NextSession]_vars

-----------------------------------------------------------------------------
(* Properties: registration and authentication (SpecAuth) *)

\* C1: after any interleaving of register requests no two Company rows
\* have the same name, and a register request whose name is already taken
\* is answered 409 and leaves the company table unchanged.
C1_UniqueCompanyName ==
    [][/\ \A c1, c2 \in companies' : c1.name = c2.name => c1 = c2
       /\ (/\ resp'.seq # resp.seq
           /\ resp'.op = "register"
           /\ \E c \in companies : c.name = resp'.asked)
          => (resp'.code = 409 /\ companies' = companies)]_vars

\* A register request lost the race for its name at commit: it was
\* answered 409 and exactly one row with that name exists.
C1_Witness ==
    /\ resp.op = "register"
    /\ resp.code = 409
    /\ ctr.key > ctr.company
    /\ Cardinality({c \in companies : c.name = resp.asked}) = 1

\* C2: round trip.  For every credential a 201 response handed out, while
\* the company is active, authenticate with the registered name and that
\* credential answers 200 with authenticated true and the company's id,
\* and a bearer request carrying the credential resolves to that company.
C2_RegisterAuthenticateRoundTrip ==
    \A i \in issued : \A c \in companies :
        (c.id = i.companyId /\ c.is_active) =>
            /\ LET r == authenticate_company(i.companyName, i.apiKey)
               IN  /\ r.code = 200
                   /\ r.authenticated
                   /\ r.company = i.companyId
            /\ get_current_company("Bearer", i.apiKey) = {c}

\* An issued credential was used to authenticate while another company is
\* registered too.
C2_Witness ==
    /\ resp.op = "authenticate"
    /\ resp.code = 200
    /\ resp.authenticated
    /\ \E i \in issued : i.apiKey = resp.key /\ i.companyId = resp.company
    /\ Cardinality(companies) > 1

\* C3: authenticate answers 401, never authenticated true, when the name
\* is unknown, the credential does not verify against the stored hash or
\* the company is inactive, and it never changes stored state.
C3_AuthenticateRejects ==
    [][(resp'.seq # resp.seq /\ resp'.op = "authenticate") =>
          /\ UNCHANGED <<provided, authVars, docs, chunks, rfps, files, queue>>
          /\ (\A c \in companies :
                 c.name = resp'.asked =>
                    (~c.is_active \/ ~verify_api_key(resp'.key, c.api_key)))
             => (resp'.code = 401 /\ ~resp'.authenticated)]_vars

\* An inactive company presented its correct credential and got 401.
C3_Witness ==
    /\ resp.op = "authenticate"
    /\ resp.code = 401
    /\ \E c \in companies :
          /\ c.name = resp.asked
          /\ ~c.is_active
          /\ verify_api_key(resp.key, c.api_key)

-----------------------------------------------------------------------------
(* Properties: tenant scoping (SpecTenant) *)

\* C4: on every document and RFP route a caller resolving to company A
\* with a path naming company B # A gets 403, and no request reads,
\* creates, modifies or deletes a document, chunk, RFP or file of a
\* company other than its caller's.
C4_TenantScoping ==
    [][\A b \in CompanyIds :
         LET OwnedDocs == {d \in DOMAIN docs : docs[d].company = b}
             OwnedRfps == {x \in DOMAIN rfps : rfps[x].company = b}
             Owned == <<[d \in OwnedDocs |-> docs[d]],
                        {c \in chunks : c.document \in OwnedDocs},
                        [x \in OwnedRfps |-> rfps[x]],
                        {f \in files : f.company = b}>>
         IN  /\ (/\ resp'.seq # resp.seq
                 /\ resp'.caller # NoId
                 /\ resp'.path = b
                 /\ resp'.caller # b)
                => /\ resp'.code = 403
                   /\ resp'.owners = {}
                   /\ Owned' = Owned
                   /\ queue' = queue
             /\ resp'.seq # resp.seq => resp'.owners \subseteq {resp'.caller}
             /\ (/\ <<docs, chunks, rfps, files>>' # <<docs, chunks, rfps, files>>
                 /\ Owned' # Owned)
                => \E r \in ReqSlots :
                      /\ reqs'[r] # reqs[r]
                      /\ b \in {reqs[r].caller, reqs'[r].caller}]_vars

\* A caller asked for the status of a document on the path of another
\* company that owns a document, and was answered 403.
C4_Witness ==
    /\ resp.op = "get_document_status"
    /\ resp.code = 403
    /\ resp.caller # NoId
    /\ resp.caller # resp.path
    /\ \E d \in DOMAIN docs : docs[d].company = resp.path

-----------------------------------------------------------------------------
(* Properties: upload validation (SpecUpload) *)

\* C5: an upload is accepted if and only if its size is at most
\* 10,485,760 bytes, its declared content type is allowed and its file
\* name extension is .pdf, .docx or .doc; a rejected document or RFP
\* upload is a 400-class error that writes no file, creates no row and
\* enqueues no job.
C5_UploadAcceptedIffValid ==
    [][LET Acceptable(file) ==
              /\ file.size <= 10485760
              /\ file.content_type \in ALLOWED_MIME_TYPES
              /\ Lower(PathSuffix(file.filename)) \in ALLOWED_EXTENSIONS
       IN  /\ \A r \in ReqSlots :
                (reqs[r].pc = "idle" /\ reqs'[r].pc # "idle") =>
                    Acceptable(reqs'[r].file)
           /\ (/\ resp'.seq # resp.seq
               /\ resp'.op \in {"upload_document", "upload_rfp"})
              => \/ resp'.code \in {200, 202}
                 \/ /\ resp'.code >= 400
                    /\ resp'.code < 500
                    /\ ~Acceptable(resp'.file)
                    /\ UNCHANGED <<docs, chunks, rfps, files, queue, reqs>>]_vars

-----------------------------------------------------------------------------
(* Properties: document lifecycle (Spec) *)

\* C6: a successful document upload is answered 202 with status
\* PROCESSING, no committed CompanyDocument row ever has status PENDING,
\* and a row is first committed in PROCESSING with a start timestamp.
C6_NeverCommittedPending ==
    [][/\ \A d \in DOMAIN docs' : docs'[d].status # "PENDING"
       /\ \A d \in DOMAIN docs' \ DOMAIN docs :
             docs'[d].status = "PROCESSING" /\ docs'[d].started # 0
       /\ (/\ resp'.seq # resp.seq
           /\ resp'.op = "upload_document"
           /\ resp'.code = 202)
          => resp'.status = "PROCESSING"]_vars

\* An upload was answered 202 while its row is committed in PROCESSING
\* with a start timestamp.
C6_Witness ==
    /\ resp.op = "upload_document"
    /\ resp.code = 202
    /\ resp.doc \in DOMAIN docs
    /\ docs[resp.doc].status = "PROCESSING"
    /\ docs[resp.doc].started # 0

\* C7: a COMPLETED CompanyDocument has chunk_count equal to the number of
\* its DocumentChunk rows, whose chunk_index values are exactly
\* 0..chunk_count-1 without duplicates.
C7_CompletedChunksConsistent ==
    \A d \in DOMAIN docs :
        docs[d].status = "COMPLETED" =>
            LET rows == {c \in chunks : c.document = d}
            IN  /\ docs[d].chunk_count = Cardinality(rows)
                /\ {c.chunk_index : c \in rows} = 0..(docs[d].chunk_count - 1)
                /\ \A c1, c2 \in rows :
                      c1.chunk_index = c2.chunk_index => c1 = c2

\* C8: outside manual reprocess a CompanyDocument that is COMPLETED or
\* FAILED is never moved back to PROCESSING or PENDING by a job execution,
\* a job retry or a redelivered job.
C8_StatusOnlyForward ==
    [][\A d \in DOMAIN docs \cap DOMAIN docs' :
          (/\ docs[d].status \in {"COMPLETED", "FAILED"}
           /\ ~(\E r \in ReqSlots :
                   /\ reqs[r].op = "process_document"
                   /\ reqs[r].pc = "enqueued"
                   /\ reqs'[r].pc \in {"recommitted", "idle"}))
          => docs'[d].status \notin {"PROCESSING", "PENDING"}]_vars

\* C9: when manual reprocess of a COMPLETED or FAILED document commits
\* status PROCESSING, the committed row has no error message and chunk
\* count 0 and the document has no chunk rows.
C9_ReprocessResets ==
    [][\A r \in ReqSlots :
          (/\ reqs[r].op = "process_document"
           /\ reqs[r].pc = "enqueued"
           /\ reqs'[r].pc = "recommitted"
           /\ reqs[r].loaded.status \in {"COMPLETED", "FAILED"}
           /\ reqs[r].doc \in DOMAIN docs'
           /\ docs'[reqs[r].doc].status = "PROCESSING")
          => /\ docs'[reqs[r].doc].error = NoText
             /\ docs'[reqs[r].doc].chunk_count = 0
             /\ \A c \in chunks' : c.document # reqs[r].doc]_vars

\* C10: manual reprocess of a PROCESSING document is a no-op: it is
\* answered with the current status, enqueues no job and leaves the
\* document row and its chunk rows unchanged; no reprocess goes past the
\* status check on a PROCESSING document.
C10_ReprocessProcessingNoop ==
    [][/\ \A r \in ReqSlots :
             (reqs[r].pc = "idle" /\ reqs'[r].pc = "read") =>
                 docs[reqs'[r].doc].status # "PROCESSING"
       /\ (/\ resp'.seq # resp.seq
           /\ resp'.op = "process_document"
           /\ reqs' = reqs
           /\ resp'.caller = resp'.path
           /\ resp'.doc \in DOMAIN docs
           /\ docs[resp'.doc].company = resp'.path
           /\ docs[resp'.doc].status = "PROCESSING")
          => /\ resp'.code = 202
             /\ resp'.status = "PROCESSING"
             /\ UNCHANGED <<docs, chunks, queue, files>>]_vars

\* A reprocess request found the document PROCESSING and was answered 202
\* before any reprocess went through.
C10_Witness ==
    /\ resp.op = "process_document"
    /\ resp.code = 202
    /\ resp.status = "PROCESSING"
    /\ ctr.reprocess = 0
    /\ resp.doc \in DOMAIN docs
    /\ docs[resp.doc].status = "PROCESSING"

\* The question rows of an RFP.
QuestionsOf(x) == {q \in questions : q.rfp = x}

\* C11: an RfpDocument that is COMPLETED with questions_count = N has
\* exactly N ExtractedQuestion rows, numbered 1..N without duplicates.
C11_CompletedQuestionsNumbered ==
    \A x \in DOMAIN rfps :
        rfps[x].status = "COMPLETED" =>
            LET rows == QuestionsOf(x)
            IN  /\ Cardinality(rows) = rfps[x].questions_count
                /\ {q.question_number : q \in rows} =
                       1..rfps[x].questions_count

StatusOf(rows, id) == {q.answer_status : q \in {k \in rows : k.id = id}}

\* C12: once the questions of an RFP are extracted, a question whose
\* answering raises is committed FAILED and the loop goes on to the next
\* question, a question whose answer is committed ends ANSWERED, the
\* loop is left only after the last question, and the RFP is then
\* committed COMPLETED, never FAILED.
C12_QuestionFailureIsolated ==
    [][\A w \in Workers :
          LET x == workers[w].target
              InLoop == workers[w].pc \in {"loop", "answer", "answered"}
              InTry == workers[w].pc \in {"answer", "answered"}
          IN  /\ (InLoop /\ workers'[w].pc # "idle") =>
                    /\ workers'[w].pc \in {"loop", "answer", "answered",
                                            "return"}
                    /\ rfps'[x].status \in {"PROCESSING", "COMPLETED"}
              /\ (InTry /\ workers'[w] # workers[w]
                        /\ workers'[w].pc \notin {"idle", "answered"}) =>
                    /\ workers'[w].pc = "loop"
                    /\ workers'[w].i = workers[w].i + 1
                    /\ StatusOf(questions', workers[w].q)
                           \in {{"FAILED"}, {"ANSWERED"}}
                    /\ rfps' = rfps
              /\ (workers[w].pc = "answer" /\ workers'[w].pc = "loop") =>
                    StatusOf(questions', workers[w].q) = {"FAILED"}
              /\ (workers[w].pc = "loop" /\ workers'[w].pc = "return") =>
                    /\ workers[w].i = workers[w].n
                    /\ rfps'[x].status = "COMPLETED"]_vars

\* C13: when the text extraction or the question extraction of an RFP
\* job raises, the job creates no ExtractedQuestion row and the handler
\* commits the RFP FAILED with the error text of the exception.
C13_ExtractionFailureFailsRfp ==
    [][\A w \in Workers :
          workers[w].task = "process_rfp_document" =>
            /\ (workers[w].pc = "started" /\ workers'[w].pc = "except") =>
                  /\ questions' = questions
                  /\ workers'[w].error # NoText
            /\ (workers[w].pc = "except" /\ workers'[w].pc = "return") =>
                  /\ questions' = questions
                  /\ rfps'[workers[w].target].status = "FAILED"
                  /\ rfps'[workers[w].target].error = workers[w].error
                  /\ rfps'[workers[w].target].error # NoText]_vars

\* An RFP job has failed on extraction: the RFP is FAILED with the error
\* text and has no question row.
C13_Witness ==
    \E w \in Workers :
        /\ workers[w].task = "process_rfp_document"
        /\ workers[w].pc = "return"
        /\ workers[w].error # NoText
        /\ rfps[workers[w].target].status = "FAILED"
        /\ rfps[workers[w].target].error = workers[w].error
        /\ QuestionsOf(workers[w].target) = {}

\* C14: every DocumentChunk references an existing CompanyDocument and
\* every QuestionDocumentMatch references an existing document and an
\* existing question, so once a delete has committed no chunk or match
\* row references the deleted document, whatever job or RFP pipeline is
\* in flight.
C14_NoOrphanRows ==
    /\ \A c \in chunks : c.document \in DOMAIN docs
    /\ \A m \in matches :
          /\ m.document \in DOMAIN docs
          /\ m.question \in {q.id : q \in questions}

\* A delete has committed while the RFP pipeline of the company was
\* between answering a question and committing its matches.
C14_Witness ==
    /\ resp.op = "delete_document"
    /\ resp.code = 204
    /\ resp.doc \notin DOMAIN docs
    /\ \E w \in Workers :
          /\ workers[w].pc = "answered"
          /\ \E m \in workers[w].found : m.document = resp.doc

\* C15: every document that is PROCESSING eventually is COMPLETED or
\* FAILED, when requests run to their end, workers keep executing the
\* queued jobs and every call returns or raises.
C15_ProcessingEnds ==
    \A d \in 1..MaxDocs :
        (d \in DOMAIN docs /\ docs[d].status = "PROCESSING")
            ~> (d \in DOMAIN docs
                    /\ docs[d].status \in {"COMPLETED", "FAILED"})

\* C16: once a worker executes the processing job of an uploaded RFP,
\* the RFP eventually is COMPLETED or FAILED, when requests run to
\* their end, workers keep executing the queued jobs and every call
\* returns or raises; it does not stay PENDING or PROCESSING for ever.
C16_RfpEnds ==
    \A x \in 1..MaxRfps :
        (\E w \in Workers : /\ workers[w].task = "process_rfp_document"
                            /\ workers[w].target = x
                            /\ workers[w].pc = "loaded")
            ~> (x \in DOMAIN rfps
                    /\ rfps[x].status \in {"COMPLETED", "FAILED"})

\* C17: when a request ends with an error, none of the writes of that
\* request is persisted: the step that ends it leaves the tables as they
\* were, and the row the request created is not in its table.
C17_ErrorLeavesNoWrite ==
    [][\A r \in ReqSlots :
          (/\ reqs[r].pc # "idle"
           /\ reqs'[r].pc = "idle"
           /\ resp' # resp
           /\ resp'.code >= 400)
          => /\ docs' = docs
             /\ chunks' = chunks
             /\ rfps' = rfps
             /\ reqs[r].op = "upload_document" =>
                   reqs[r].doc \notin DOMAIN docs'
             /\ reqs[r].op = "upload_rfp" =>
                   reqs[r].doc \notin DOMAIN rfps']_vars

\* C18: when an execution of the document job raises, nothing of what it
\* had not committed is persisted (no chunk row is added), the handler
\* commits the document FAILED with the error text of the exception, and
\* the execution ends with that exception.
C18_JobFailureRollsBack ==
    [][\A w \in Workers :
          workers[w].task = "process_document" =>
            /\ (workers[w].pc # "except" /\ workers'[w].pc = "except") =>
                  /\ chunks' = chunks
                  /\ docs' = docs
                  /\ workers'[w].error # NoText
            /\ (workers[w].pc = "except" /\ workers'[w].pc = "raised") =>
                  LET d == workers[w].target
                  IN  /\ chunks' = chunks
                      /\ workers'[w].error = workers[w].error
                      /\ d \in DOMAIN docs =>
                            /\ docs'[d].status = "FAILED"
                            /\ docs'[d].error = workers[w].error
                            /\ docs'[d].error # NoText
            /\ (workers[w].pc = "raised" /\ workers'[w].pc = "return") =>
                  /\ chunks' = chunks
                  /\ docs' = docs
                  /\ workers'[w].error = workers[w].error]_vars

\* An execution of the document job has raised while indexing: the
\* document is FAILED with the error text and has no chunk row.
C18_Witness ==
    \E w \in Workers :
        /\ workers[w].task = "process_document"
        /\ workers[w].pc = "return"
        /\ workers[w].error = "index_document raised"
        /\ workers[w].target \in DOMAIN docs
        /\ docs[workers[w].target].status = "FAILED"
        /\ docs[workers[w].target].error = workers[w].error
        /\ ChunksOf(workers[w].target) = {}

\* C19: a document job whose executions keep raising is run for at
\* most 3 attempts, the attempt of an execution being the retry count
\* of its message plus one.
C19_AtMostThreeAttempts ==
    \A w \in Workers :
        (workers[w].task = "process_document" /\ workers[w].pc # "idle")
            => workers[w].retries + 1 <= 3

\* The limited request of a step: its route and client.
LimitedRequest(route, client) ==
    /\ hits' # hits
    /\ limiter_hit(route, client) = hits'

\* C20: a registration or RFP-upload request of a client that has sent
\* 5 or more requests to that operation within the last minute is
\* answered 429 and writes nothing, and a request of a client that has
\* sent fewer is not answered 429.
C20_SixthRequestRejected ==
    [][\A route \in LimitedRoutes, client \in Clients :
          LimitedRequest(route, client) =>
            IF RecentRequests(route, client) >= RateLimit
            THEN /\ resp'.code = 429
                 /\ resp'.client = client
                 /\ UNCHANGED <<companies, regs, rfps, files, queue, reqs>>
            ELSE resp' = resp \/ resp'.code # 429]_vars

\* C21: a delete of an existing document by its owner is never stopped
\* by the backing file, missing or not removable: the only answers of
\* the first half are 401, 403 and 404, and the commit removes the row
\* with its chunk and match rows and answers 204.
C21_DeleteSurvivesFileFailure ==
    [][/\ (/\ reqs' = reqs
           /\ resp' # resp
           /\ resp'.op = "delete_document")
          => \/ resp'.code \in {401, 403}
             \/ resp'.code = 404 /\ resp'.doc \notin DOMAIN docs
       /\ \A r \in ReqSlots :
            (/\ reqs[r].op = "delete_document"
             /\ reqs[r].pc = "deleting"
             /\ reqs'[r].pc = "idle")
            => /\ resp'.code = 204
               /\ reqs[r].doc \notin DOMAIN docs'
               /\ ChunksOf(reqs[r].doc)' = {}
               /\ MatchesOf(reqs[r].doc)' = {}]_vars

\* A delete has answered 204 and removed the row and its chunk while the
\* backing file is still in storage.
C21_Witness ==
    /\ resp.op = "delete_document"
    /\ resp.code = 204
    /\ resp.doc \notin DOMAIN docs
    /\ chunks = {}
    /\ matches = {}
    /\ TenantDocRow(1).file_path \in files

\* C22: a list of the documents of company C with status filter s names
\* exactly the documents of C whose status is s, without a filter exactly
\* the documents of C, each once and the newer created before the older.
C22_ListExactAndOrdered ==
    [][(/\ resp' # resp
        /\ resp'.op = "list_documents"
        /\ resp'.code = 200)
       => LET l == resp'.documents
          IN  /\ {l[i] : i \in DOMAIN l} =
                    {d \in DOMAIN docs :
                        /\ docs[d].company = resp'.path
                        /\ resp'.status \in {NoText, docs[d].status}}
              /\ \A i, j \in DOMAIN l : l[i] = l[j] => i = j
              /\ \A i, j \in DOMAIN l :
                    (docs[l[i]].created_at > docs[l[j]].created_at) => i < j
              ]_vars

\* A list filtered by COMPLETED named the two COMPLETED documents of a
\* company, the uploaded one before the older one.
C22_Witness ==
    /\ resp.op = "list_documents"
    /\ resp.code = 200
    /\ resp.status = "COMPLETED"
    /\ Len(resp.documents) = 2
    /\ docs[resp.documents[1]].created_at > docs[resp.documents[2]].created_at

\* C23: when manual reprocess of a COMPLETED or FAILED document enqueues
\* its Document Processing Job, the committed row is already PROCESSING
\* with chunk count 0 and no error message, and the document has no
\* committed chunk rows.
C23_EnqueueAfterCommit ==
    [][\A r \in ReqSlots :
          (/\ reqs[r].op = "process_document"
           /\ reqs[r].loaded.status \in {"COMPLETED", "FAILED"}
           /\ reqs[r].doc \in DOMAIN docs
           /\ \E m \in queue' \ queue :
                 /\ m.task = "process_document"
                 /\ m.target = reqs[r].doc
                 /\ reqs'[r].pc # reqs[r].pc)
          => /\ docs[reqs[r].doc].status = "PROCESSING"
             /\ docs[reqs[r].doc].chunk_count = 0
             /\ docs[reqs[r].doc].error = NoText
             /\ ChunksOf(reqs[r].doc) = {}]_vars

\* C24: a manual reprocess request enqueues its job on the status it read,
\* which was not PROCESSING, whatever the committed status has become
\* since; so two requests for one document can each enqueue a job.
C24_CheckIsReadThenWrite ==
    [][\A r \in ReqSlots :
          (/\ reqs[r].op = "process_document"
           /\ reqs[r].pc = "read"
           /\ reqs'[r].pc = "enqueued")
          => /\ reqs[r].loaded.status # "PROCESSING"
             /\ \E m \in queue' \ queue :
                   /\ m.task = "process_document"
                   /\ m.target = reqs[r].doc]_vars

\* Two jobs of one document are pending, both published by manual
\* reprocess requests before any worker took one: no job was retried and
\* no worker was lost.
C24_Witness ==
    /\ \E m1, m2 \in queue :
          /\ m1 # m2
          /\ m1.task = "process_document"
          /\ m2.task = "process_document"
          /\ m1.target = m2.target
          /\ m1.retries = 0
          /\ m2.retries = 0
          /\ m1.worker = 0
          /\ m2.worker = 0
    /\ ctr.lost = 0
    /\ ctr.raised = 0
    /\ ctr.reprocess = 2

\* C25: a CompanyDocument whose committed status is PROCESSING has no
\* DocumentChunk rows.
C25_ProcessingHasNoChunks ==
    \A d \in DOMAIN docs :
        docs[d].status = "PROCESSING" => ChunksOf(d) = {}

\* C30: a CompanyDocument whose status is COMPLETED has no error message.
C30_CompletedHasNoError ==
    \A d \in DOMAIN docs :
        docs[d].status = "COMPLETED" => docs[d].error = NoText

\* The committed record a job is about.
RecordExists(task, target) ==
    IF task = "process_document"
    THEN target \in DOMAIN docs
    ELSE target \in DOMAIN rfps

\* The task an upload request publishes.
JobOf(op) ==
    IF op = "upload_document" THEN "process_document"
                              ELSE "process_rfp_document"

C27_MatchesStayInCompany ==
    /\ \A m \in matches :
          \E q \in questions :
             /\ q.id = m.question
             /\ q.rfp \in DOMAIN rfps
             /\ m.document \in DOMAIN docs
             /\ docs[m.document].company = rfps[q.rfp].company
    /\ \A w \in Workers :
          workers[w].pc = "answered" =>
             /\ workers[w].isolation_key = rfps[workers[w].target].company
             /\ \A f \in workers[w].found :
                   docs[f.document].company = workers[w].isolation_key

\* An answered question of an RFP has a match while another company has
\* an indexed document whose chunk id the answer could have cited.
C27_Witness ==
    \E m \in matches :
       \E d \in DOMAIN docs :
          /\ docs[d].company # docs[m.document].company
          /\ ChunksOf(d) # {}
          /\ \E q \in questions : /\ q.id = m.question
                                  /\ q.answer_status = "ANSWERED"

\* C28: an ExtractedQuestion whose status is FAILED has no generated
\* answer, no confidence score and no QuestionDocumentMatch rows; a
\* question that has an answer or a match row is ANSWERED.
C28_FailedHasNoAnswer ==
    \A q \in questions :
        LET matched == {m \in matches : m.question = q.id}
        IN  /\ q.answer_status = "FAILED"
                  => /\ q.generated_answer = NoText
                     /\ q.confidence_score = NoText
                     /\ matched = {}
            /\ (q.generated_answer # NoText \/ matched # {})
                  => q.answer_status = "ANSWERED"

\* C29: each chunk id listed in a QuestionDocumentMatch is the chunk id
\* of an existing DocumentChunk of the matched document.
C29_MatchChunksExist ==
    \A m \in matches :
        \A i \in DOMAIN m.chunk_ids :
            \E c \in chunks : /\ c.document = m.document
                              /\ c.chunk_id = m.chunk_ids[i]

\* C31: every ExtractedQuestion of an RfpDocument that is COMPLETED has
\* status ANSWERED or FAILED.
C31_CompletedQuestionsSettled ==
    \A x \in DOMAIN rfps :
        rfps[x].status = "COMPLETED" =>
            \A q \in QuestionsOf(x) :
                q.answer_status \in {"ANSWERED", "FAILED"}

\* C32: a Document Processing Job that finds no document with its id in
\* its company returns a failure result without raising and writes
\* nothing, and while a worker holds that job no retry is published.
C32_MissingDocumentNoRetry ==
    [][\A w \in Workers :
          /\ (/\ workers[w].pc = "idle"
               /\ workers'[w].pc # "idle"
               /\ workers'[w].task = "process_document"
               /\ \/ workers'[w].target \notin DOMAIN docs
                  \/ docs[workers'[w].target].company # workers'[w].company)
              => /\ workers'[w].pc = "return"
                 /\ workers'[w].error = "not found"
                 /\ UNCHANGED <<docs, chunks, files, questions, matches>>
          /\ (/\ workers[w].pc = "return"
               /\ workers[w].task = "process_document"
               /\ workers[w].error = "not found"
               /\ workers'[w] # workers[w])
              => /\ UNCHANGED <<docs, chunks, files, questions, matches>>
                 /\ \A m \in queue' :
                       m \in queue \/ [m EXCEPT !.worker = w] \in queue]_vars

\* The job of an uploaded document that was deleted has returned its
\* failure result.
C32_Witness ==
    \E w \in Workers :
        /\ workers[w].pc = "return"
        /\ workers[w].task = "process_document"
        /\ workers[w].error = "not found"
        /\ workers[w].target \notin DOMAIN docs
        /\ queue = Reserved(w)

\* C33: a Document Processing Job whose text extraction yields no text
\* commits the document FAILED with the explanatory error, creates no
\* chunk, returns its failure result without raising, and no retry is
\* published for it; a job whose stored file is missing can only end so.
C33_NoTextFailsWithoutRetry ==
    [][\A w \in Workers :
          /\ (/\ workers[w].pc = "started"
               /\ workers[w].task = "process_document"
               /\ workers[w].cur.file_path \notin files
               /\ workers'[w] # workers[w]
               /\ workers'[w].pc # "idle")
              => workers'[w].pc = "return"
          /\ (/\ workers[w].pc = "started"
               /\ workers[w].task = "process_document"
               /\ workers'[w].pc = "return")
              => /\ docs'[workers[w].target].status = "FAILED"
                 /\ docs'[workers[w].target].error =
                        "Failed to extract text from document"
                 /\ workers'[w].error = "Text extraction failed"
                 /\ UNCHANGED <<chunks, queue>>
          /\ (/\ workers[w].pc = "return"
               /\ workers[w].task = "process_document"
               /\ workers[w].error = "Text extraction failed"
               /\ workers'[w] # workers[w])
              => /\ UNCHANGED <<docs, chunks>>
                 /\ \A m \in queue' :
                       m \in queue \/ [m EXCEPT !.worker = w] \in queue]_vars

C35_MalformedHashIs401 ==
    [][(/\ resp' # resp
        /\ resp'.op = "authenticate"
        /\ \E c \in companies : /\ c.name = resp'.asked
                                 /\ c.is_active
                                 /\ c.api_key.salt \notin Salts)
       => resp'.code = 401]_vars

\* C36: the rate limit of registration is counted under the first
\* address of the forwarded-address header when the request carries
\* one and under the peer address otherwise, so that requests of one
\* peer with different forwarded first addresses use different
\* counters.
C36_ForwardedAddressIsKey ==
    [][\A request \in Requests, n \in Names :
          RegisterFrom(request, 1, n) =>
            hits' = limiter_hit("register_company",
                                custom_key_func(request))]_vars

\* C37: an upload of one of the sample reference documents of validate_step6.py
\* (name ending .txt, declared type text/plain) by the company itself
\* is answered 202 with a stored document whose processing job has
\* been published.
C37_SampleDocumentsAccepted ==
    [][(/\ resp' # resp
        /\ resp'.op = "upload_document"
        /\ resp'.caller = resp'.path
        /\ resp'.file \in SampleDocuments)
       => /\ resp'.code = 202
          /\ resp'.doc \in DOMAIN docs'
          /\ \E m \in queue' :
                m.task = "process_document" /\ m.target = resp'.doc]_vars

=============================================================================
